---------------------------- MODULE Spec2Model ----------------------------
(***************************************************************************)
(* ReactOS setup library, partition list engine (partlist.c / partlist.h). *)
(*                                                                         *)
(* The PARTLIST is modelled as the sequence of its DISKENTRYs (in disk     *)
(* list order) plus the SystemPartition pointer.  Every DISKENTRY holds    *)
(* its two region lists (PrimaryPartListHead, LogicalPartListHead) as      *)
(* sequences of PARTENTRY records in list order.  A PARTENTRY pointer is   *)
(* modelled by the field "id" of the record it points to; NULL is 0.       *)
(*                                                                         *)
(* ULONGLONG arithmetic is unsigned and wraps.  The model keeps that       *)
(* behaviour with a narrower word (ULL_MOD) so that every value fits the   *)
(* model checker's integers; all sector numbers and byte sizes of the      *)
(* modelled disks are far below ULL_MOD, so only genuine wrap-arounds      *)
(* (an unsigned subtraction going below zero) are reduced by it.           *)
(***************************************************************************)
EXTENDS Integers, Sequences, FiniteSets, TLC

VARIABLES
    disks,            \* PARTLIST.DiskListHead: sequence of DISKENTRY records
    SystemPartition,  \* PARTLIST.SystemPartition: id of a PARTENTRY, or NULL
    lastOp,           \* the last public operation called and what it returned
    pre,              \* region topology before the last successful CreatePartition,
                      \* kept by the DeletePartition of the created partition
    budget,           \* number of operations the run may still call
    ulCurrentLayoutNum, \* kbswitch.c: number of the layout the switcher holds current
    Preload           \* kbswitch.c: value names of HKCU\Keyboard Layout\Preload

vars == <<disks, SystemPartition, lastOp, pre, budget, ulCurrentLayoutNum, Preload>>

\* the keyboard-layout switcher has not processed a message: its global
\* holds its initialiser, and the one default layout is configured
SwitcherIdle == ulCurrentLayoutNum = 1 /\ Preload = {1}

NULL == 0

(***************************************************************************)
(* Program constants                                                       *)
(***************************************************************************)
PARTITION_ENTRY_UNUSED    == 0
PARTITION_FAT_12          == 1
PARTITION_FAT_16          == 4
PARTITION_EXTENDED        == 5
PARTITION_HUGE            == 6
PARTITION_IFS             == 7
PARTITION_FAT32           == 11
PARTITION_FAT32_XINT13    == 12
PARTITION_XINT13          == 14
PARTITION_XINT13_EXTENDED == 15
EFI_PMBR_OSTYPE_EFI       == 238
PARTITION_MAGIC           == 43605
PARTITION_TBL_SIZE        == 4
\* start of the first usable region of a disk, in sectors
FIRST_USABLE_SECTOR       == 2048
\* CHS/LBA (8.4 GB) boundary, in sectors
CHS_LBA_BOUNDARY          == 1450560
\* L'C' and L'Z'
LETTER_C                  == 67
LETTER_Z                  == 90
\* ULONGLONG arithmetic wraps; the model keeps the wrap at 2^30 instead of
\* 2^64, above every sector number and byte size of the modelled disks
ULL_MOD                   == 1073741824

(***************************************************************************)
(* Bounds of the model                                                     *)
(***************************************************************************)
\* operations per run
MaxOps == 3
\* operations per run on the machine with the packed disk
MaxLetterOps == 1
\* operations per run on the machine with two MBR disks
MaxWriteOps == 4
\* readings of the clock per run of UpdateDiskSignatures
MaxClockReads == 5
\* the disk signatures found and the values the clock produces are 0..MaxSig
MaxSig == 3
\* calls of SetActivePartition per run on the machine with two MBR disks
MaxActiveOps == 2
\* calls per run on the machines with an NTFS system partition
MaxFindOps == 2
\* calls per run on the machine whose volumes are mounted and dismounted
MaxVolumeOps == 2
\* calls per run on the machines whose regions are enumerated
MaxEnumOps == 2
\* logical drives of the packed disk
NumLogicals == 23

(***************************************************************************)
(* Unsigned arithmetic                                                     *)
(***************************************************************************)
U64(x) == x % ULL_MOD

Min(a, b) == IF a < b THEN a ELSE b
Max(a, b) == IF a > b THEN a ELSE b

AlignDown(Value, Alignment) == (Value \div Alignment) * Alignment

AlignUp(Value, Alignment) ==
    IF Value % Alignment # 0
    THEN (Value \div Alignment) * Alignment + Alignment
    ELSE (Value \div Alignment) * Alignment

(***************************************************************************)
(* Partition type predicates (ntdddisk.h) and the type helper              *)
(***************************************************************************)
IsContainerPartition(PartitionType) ==
    PartitionType = PARTITION_EXTENDED \/ PartitionType = PARTITION_XINT13_EXTENDED

IsRecognizedPartition(PartitionType) ==
    PartitionType \in {PARTITION_FAT_12, PARTITION_FAT_16, PARTITION_HUGE,
                       PARTITION_IFS, PARTITION_FAT32, PARTITION_FAT32_XINT13,
                       PARTITION_XINT13}

\* FileSystemToMBRPartitionType(L"RAW", StartSector, SectorCount): a FAT
\* family type chosen by size and by the position w.r.t. the CHS boundary
FileSystemToMBRPartitionType(StartSector, SectorCount) ==
    IF SectorCount < 8192 THEN PARTITION_FAT_12
    ELSE IF StartSector < CHS_LBA_BOUNDARY
         THEN IF SectorCount < 65536 THEN PARTITION_FAT_16
              ELSE IF SectorCount < 1048576 THEN PARTITION_HUGE
              ELSE PARTITION_FAT32
         ELSE IF SectorCount < 1048576 THEN PARTITION_XINT13
              ELSE PARTITION_FAT32_XINT13

(***************************************************************************)
(* Sequence helpers (LIST_ENTRY manipulation)                              *)
(***************************************************************************)
\* InsertTailList(&s[i], x): x is linked in front of the element at i;
\* i = Len(s) + 1 stands for the list head (x becomes the last element)
InsertBefore(s, i, x) ==
    [k \in 1..(Len(s) + 1) |->
        IF k < i THEN s[k] ELSE IF k = i THEN x ELSE s[k - 1]]

\* RemoveEntryList(&s[i])
RemoveAt(s, i) ==
    [k \in 1..(Len(s) - 1) |-> IF k < i THEN s[k] ELSE s[k + 1]]

(***************************************************************************)
(* Records                                                                 *)
(***************************************************************************)
\* a VOLINFO as left by RtlZeroMemory (FormatState 0 is Unformatted)
ZeroVolume ==
    [DeviceName  |-> <<>>,
     DriveLetter |-> 0,
     VolumeLabel |-> "",
     FileSystem  |-> "",
     FormatState |-> "Unformatted",
     New         |-> FALSE,
     NeedsCheck  |-> FALSE]

\* a PARTENTRY as left by RtlAllocateHeap(HEAP_ZERO_MEMORY)
ZeroPartEntry(id) ==
    [id                    |-> id,
     StartSector           |-> 0,
     SectorCount           |-> 0,
     BootIndicator         |-> FALSE,
     PartitionType         |-> PARTITION_ENTRY_UNUSED,
     OnDiskPartitionNumber |-> 0,
     PartitionNumber       |-> 0,
     PartitionIndex        |-> 0,
     LogicalPartition      |-> FALSE,
     IsPartitioned         |-> FALSE,
     New                   |-> FALSE,
     AutoCreate            |-> FALSE,
     Volume                |-> ZeroVolume]

\* a PARTITION_INFORMATION slot of the layout buffer, zeroed
ZeroSlot ==
    [StartingOffset      |-> 0,
     PartitionLength     |-> 0,
     HiddenSectors       |-> 0,
     PartitionNumber     |-> 0,
     PartitionType       |-> PARTITION_ENTRY_UNUSED,
     BootIndicator       |-> FALSE,
     RecognizedPartition |-> FALSE,
     RewritePartition    |-> FALSE]

\* x * BytesPerSector in ULONGLONG arithmetic; BytesPerSector is a power of
\* two, so the product modulo ULL_MOD only depends on the low bits of x
SectorsToBytes(x, BytesPerSector) ==
    (x % (ULL_MOD \div BytesPerSector)) * BytesPerSector

GetPartEntryOffsetInBytes(DiskEntry, PartEntry) ==
    SectorsToBytes(PartEntry.StartSector, DiskEntry.BytesPerSector)

GetPartEntrySizeInBytes(DiskEntry, PartEntry) ==
    SectorsToBytes(PartEntry.SectorCount, DiskEntry.BytesPerSector)

\* the region list of a disk: logical or primary
PartList(DiskEntry, Logical) ==
    IF Logical THEN DiskEntry.LogicalPartList ELSE DiskEntry.PrimaryPartList

SetPartList(DiskEntry, Logical, s) ==
    IF Logical THEN [DiskEntry EXCEPT !.LogicalPartList = s]
               ELSE [DiskEntry EXCEPT !.PrimaryPartList = s]

\* every PARTENTRY currently linked in a list of some disk
AllRegions(ds) ==
    UNION {{ds[d].PrimaryPartList[i] : i \in 1..Len(ds[d].PrimaryPartList)}
           \cup {ds[d].LogicalPartList[i] : i \in 1..Len(ds[d].LogicalPartList)}
           : d \in 1..Len(ds)}

\* the PARTENTRY blocks in use: those linked in a list and those a disk
\* allocated and never linked or freed
AllIds(ds) ==
    {r.id : r \in AllRegions(ds)}
      \cup UNION {{ds[d].Unlinked[i].id : i \in 1..Len(ds[d].Unlinked)}
                    : d \in 1..Len(ds)}

\* RtlAllocateHeap: the lowest block number that is not in use
FreeId(used) ==
    CHOOSE n \in 1..(Cardinality(used) + 1) :
        n \notin used /\ \A m \in 1..(n - 1) : m \in used

(***************************************************************************)
(* Volumes                                                                 *)
(***************************************************************************)
\* DismountVolume(VolumeEntry); openOk is the outcome of NtOpenFile.  The
\* lock, dismount and unlock controls do not change the VOLINFO.
DismountVolume(VolumeEntry, openOk) ==
    IF \/ VolumeEntry.DeviceName = <<>>
       \/ VolumeEntry.FormatState = "UnknownFormat"
       \/ VolumeEntry.FileSystem = ""
    THEN VolumeEntry
    ELSE IF ~openOk THEN VolumeEntry
    ELSE [VolumeEntry EXCEPT !.DriveLetter = 0,
                             !.FormatState = "Unformatted",
                             !.FileSystem = "",
                             !.VolumeLabel = "",
                             !.NeedsCheck = FALSE]

\* an IsFatFamilyType that leaves out PARTITION_FAT_12
IsFatFamilyType_NoFat12(MbrPartitionType) ==
    MbrPartitionType \in {PARTITION_FAT_16, PARTITION_HUGE,
                          PARTITION_XINT13, PARTITION_FAT32,
                          PARTITION_FAT32_XINT13}

IsFatFamilyType(MbrPartitionType) ==
    MbrPartitionType \in {PARTITION_FAT_12, PARTITION_FAT_16, PARTITION_HUGE,
                          PARTITION_XINT13, PARTITION_FAT32,
                          PARTITION_FAT32_XINT13}

\* MountVolume(VolumeEntry, MbrPartitionType); openOk is the outcome of
\* NtOpenFile, fs what InferFileSystem stores ("" when it fails), label what
\* NtQueryVolumeInformationFile returns ("" when it fails), reopenOk the
\* outcome of the NtOpenFile of the DismountVolume it may call
MountVolume(VolumeEntry, MbrPartitionType, openOk, fs, label, reopenOk) ==
    LET v0 == [VolumeEntry EXCEPT !.FormatState = "Unformatted",
                                  !.FileSystem = "",
                                  !.VolumeLabel = ""]
        v1 == IF openOk THEN [v0 EXCEPT !.FileSystem = fs] ELSE v0
    IN  IF v0.DeviceName = <<>> THEN v0
        ELSE IF v1.FileSystem # ""
        THEN IF v1.FileSystem = "RAW"
             THEN IF IsFatFamilyType(MbrPartitionType)
                  THEN [v1 EXCEPT !.FormatState = "Unformatted",
                                  !.VolumeLabel = label]
                  ELSE [DismountVolume(v1, reopenOk) EXCEPT
                            !.FormatState = "UnknownFormat",
                            !.FileSystem = ""]
             ELSE [v1 EXCEPT !.FormatState = "Formatted",
                             !.VolumeLabel = label]
        ELSE [v1 EXCEPT !.FormatState = "UnknownFormat",
                        !.VolumeLabel = IF openOk THEN label ELSE ""]

(***************************************************************************)
(* Region lists                                                            *)
(***************************************************************************)
\* last sector of a region, as the unsigned expression Start + Count - 1
EndSector(PartEntry) == U64(PartEntry.StartSector + PartEntry.SectorCount - 1)

\* the loop of InsertDiskRegion: where it stops, and whether it stops on
\* an overlap
RECURSIVE InsertDiskRegionScan(_, _, _)
InsertDiskRegionScan(s, PartEntry, k) ==
    IF k > Len(s) THEN [pos |-> k, overlap |-> FALSE]
    ELSE LET PartEntry2 == s[k] IN
         IF \/ (PartEntry2.PartitionType = PARTITION_ENTRY_UNUSED
                  /\ PartEntry2.StartSector = 0)
            \/ PartEntry2.SectorCount = 0
         THEN InsertDiskRegionScan(s, PartEntry, k + 1)
         ELSE IF EndSector(PartEntry2) < PartEntry.StartSector
         THEN InsertDiskRegionScan(s, PartEntry, k + 1)
         ELSE IF Max(PartEntry.StartSector, PartEntry2.StartSector)
                   <= Min(EndSector(PartEntry), EndSector(PartEntry2))
         THEN [pos |-> k, overlap |-> TRUE]
         ELSE [pos |-> k, overlap |-> FALSE]

\* InsertDiskRegion(DiskEntry, PartEntry, LogicalPartition)
InsertDiskRegion(DiskEntry, PartEntry, LogicalPartition) ==
    LET s == PartList(DiskEntry, LogicalPartition)
        r == InsertDiskRegionScan(s, PartEntry, 1)
    IN  IF r.overlap
        THEN [ok |-> FALSE, disk |-> DiskEntry]
        ELSE [ok |-> TRUE,
              disk |-> SetPartList(DiskEntry, LogicalPartition,
                                   InsertBefore(s, r.pos, PartEntry))]

\* the PARTENTRY that CreateInsertBlankRegion allocates
BlankRegion(id, StartSector, SectorCount, LogicalSpace) ==
    [ZeroPartEntry(id) EXCEPT !.StartSector = StartSector,
                              !.SectorCount = SectorCount,
                              !.LogicalPartition = LogicalSpace,
                              !.IsPartitioned = FALSE,
                              !.PartitionType = PARTITION_ENTRY_UNUSED,
                              !.Volume = ZeroVolume]

\* CreateInsertBlankRegion(DiskEntry, ListHead, ...): the new region is
\* linked in front of position pos of list s
CreateInsertBlankRegion(s, pos, id, StartSector, SectorCount, LogicalSpace) ==
    InsertBefore(s, pos, BlankRegion(id, StartSector, SectorCount, LogicalSpace))

(***************************************************************************)
(* Disk scanner                                                            *)
(***************************************************************************)
\* a DISKENTRY as left by RtlAllocateHeap(HEAP_ZERO_MEMORY); a NULL
\* LayoutBuffer is the record with PartitionEntry = << >> and IsNull set
NullLayoutBuffer ==
    [IsNull |-> TRUE, PartitionCount |-> 0, Signature |-> 0,
     PartitionEntry |-> <<>>]

\* AddPartitionToDisk(DiskNumber, DiskEntry, PartitionIndex, LogicalPartition)
\* on disk d of ds; vol is what the volume of that slot answers to
\* MountVolume: [openOk, fs, label, reopenOk].  The result of
\* InsertDiskRegion is not looked at: a PARTENTRY it refuses stays
\* allocated and linked in no list (Unlinked)
AddPartitionToDisk(ds, d, PartitionIndex, LogicalPartition, vol) ==
    LET DiskEntry == ds[d]
        PartitionInfo == DiskEntry.LayoutBuffer.PartitionEntry[PartitionIndex + 1]
        p0 == [ZeroPartEntry(FreeId(AllIds(ds))) EXCEPT
                 !.StartSector = PartitionInfo.StartingOffset \div DiskEntry.BytesPerSector,
                 !.SectorCount = PartitionInfo.PartitionLength \div DiskEntry.BytesPerSector,
                 !.BootIndicator = PartitionInfo.BootIndicator,
                 !.PartitionType = PartitionInfo.PartitionType,
                 !.LogicalPartition = LogicalPartition,
                 !.IsPartitioned = TRUE,
                 !.OnDiskPartitionNumber = PartitionInfo.PartitionNumber,
                 !.PartitionNumber = PartitionInfo.PartitionNumber,
                 !.PartitionIndex = PartitionIndex]
        isExt == /\ IsContainerPartition(p0.PartitionType)
                 /\ ~LogicalPartition
                 /\ DiskEntry.ExtendedPartition = NULL
        p1 == IF IsContainerPartition(p0.PartitionType) THEN p0
              ELSE IF IsRecognizedPartition(p0.PartitionType)
              THEN [p0 EXCEPT !.Volume =
                       MountVolume([ZeroVolume EXCEPT !.DeviceName =
                                        <<DiskEntry.DiskNumber, p0.PartitionNumber>>],
                                   p0.PartitionType,
                                   vol.openOk, vol.fs, vol.label, vol.reopenOk)]
              ELSE [p0 EXCEPT !.Volume.FormatState = "UnknownFormat"]
        d1 == IF isExt THEN [DiskEntry EXCEPT !.ExtendedPartition = p1.id]
                       ELSE DiskEntry
    IN  IF \/ PartitionInfo.PartitionType = PARTITION_ENTRY_UNUSED
           \/ (LogicalPartition /\ IsContainerPartition(PartitionInfo.PartitionType))
        THEN ds
        ELSE IF InsertDiskRegion(d1, p1, LogicalPartition).ok
        THEN [ds EXCEPT ![d] = InsertDiskRegion(d1, p1, LogicalPartition).disk]
        ELSE [ds EXCEPT ![d] = [d1 EXCEPT !.Unlinked = Append(@, p1)]]

\* the region an id refers to in a list, and its position
PosOfId(s, id) ==
    IF \E k \in 1..Len(s) : s[k].id = id
    THEN CHOOSE k \in 1..Len(s) : s[k].id = id
    ELSE 0

\* the PARTENTRY DiskEntry->ExtendedPartition points to
ExtendedPartitionOf(DiskEntry) ==
    IF PosOfId(DiskEntry.PrimaryPartList, DiskEntry.ExtendedPartition) # 0
    THEN DiskEntry.PrimaryPartList[PosOfId(DiskEntry.PrimaryPartList,
                                           DiskEntry.ExtendedPartition)]
    ELSE DiskEntry.Unlinked[PosOfId(DiskEntry.Unlinked,
                                    DiskEntry.ExtendedPartition)]

\* one list walk of ScanForUnpartitionedDiskSpace: the regions of s from
\* position k on are visited in order, acc is the list built so far, used
\* the blocks in use; off is 0 for the primary list and SectorAlignment for
\* the logical list; returns the list, the blocks and the last region seen
RECURSIVE ScanGaps(_, _, _, _, _, _, _, _, _)
ScanGaps(s, k, acc, used, LastStartSector, LastSectorCount, align, off, LogicalSpace) ==
    IF k > Len(s)
    THEN [list |-> acc, used |-> used,
          LastStartSector |-> LastStartSector,
          LastSectorCount |-> LastSectorCount]
    ELSE LET PartEntry == s[k] IN
         IF ~(PartEntry.PartitionType # PARTITION_ENTRY_UNUSED
                \/ PartEntry.SectorCount # 0)
         THEN ScanGaps(s, k + 1, Append(acc, PartEntry), used,
                       LastStartSector, LastSectorCount, align, off, LogicalSpace)
         ELSE LET LastEnd == U64(LastStartSector + LastSectorCount)
                  LastUnusedSectorCount == U64(PartEntry.StartSector - off - LastEnd)
                  gap == /\ U64(PartEntry.StartSector - off) > LastEnd
                         /\ LastUnusedSectorCount >= align
                  StartSector == LastEnd
                  SectorCount == U64(AlignDown(U64(StartSector + LastUnusedSectorCount), align)
                                       - StartSector)
                  id == FreeId(used)
                  acc1 == IF gap
                          THEN Append(acc, BlankRegion(id, StartSector, SectorCount, LogicalSpace))
                          ELSE acc
                  used1 == IF gap THEN used \cup {id} ELSE used
              IN  ScanGaps(s, k + 1, Append(acc1, PartEntry), used1,
                           PartEntry.StartSector, PartEntry.SectorCount,
                           align, off, LogicalSpace)

\* the trailing gap of a list walk: EndOfSpace is the disk's SectorCount or
\* the end of the extended partition
ScanTrailing(r, EndOfSpace, align, LogicalSpace) ==
    LET LastEnd == U64(r.LastStartSector + r.LastSectorCount)
        LastUnusedSectorCount == AlignDown(U64(EndOfSpace - LastEnd), align)
        StartSector == LastEnd
        SectorCount == U64(AlignDown(U64(StartSector + LastUnusedSectorCount), align)
                             - StartSector)
        id == FreeId(r.used)
    IN  IF LastEnd < EndOfSpace /\ LastUnusedSectorCount >= align
        THEN [list |-> Append(r.list, BlankRegion(id, StartSector, SectorCount, LogicalSpace)),
              used |-> r.used \cup {id}]
        ELSE [list |-> r.list, used |-> r.used]

\* ScanForUnpartitionedDiskSpace(DiskEntry) on disk d of ds
ScanForUnpartitionedDiskSpace(ds, d) ==
    LET DiskEntry == ds[d]
        align == DiskEntry.SectorAlignment
        first == IF align < FIRST_USABLE_SECTOR THEN FIRST_USABLE_SECTOR ELSE align
        used0 == AllIds(ds)
        prim == ScanTrailing(
                    ScanGaps(DiskEntry.PrimaryPartList, 1, <<>>, used0,
                             first, 0, align, 0, FALSE),
                    DiskEntry.SectorCount, align, FALSE)
        d1 == [DiskEntry EXCEPT !.PrimaryPartList = prim.list]
        Ext == ExtendedPartitionOf(DiskEntry)
        logi == ScanTrailing(
                    ScanGaps(DiskEntry.LogicalPartList, 1, <<>>, prim.used,
                             U64(Ext.StartSector + align), 0, align, align, TRUE),
                    U64(Ext.StartSector + Ext.SectorCount), align, TRUE)
    IN  IF DiskEntry.PrimaryPartList = <<>>
        THEN [ds EXCEPT ![d].PrimaryPartList =
                  <<BlankRegion(FreeId(used0), first,
                                U64(AlignDown(DiskEntry.SectorCount, align) - first),
                                FALSE)>>]
        ELSE IF DiskEntry.ExtendedPartition = NULL
        THEN [ds EXCEPT ![d] = d1]
        ELSE IF DiskEntry.LogicalPartList = <<>>
        THEN [ds EXCEPT ![d] = [d1 EXCEPT !.LogicalPartList =
                  <<BlankRegion(FreeId(prim.used),
                                U64(Ext.StartSector + align),
                                U64(Ext.SectorCount - align), TRUE)>>]]
        ELSE [ds EXCEPT ![d] = [d1 EXCEPT !.LogicalPartList = logi.list]]

\* AddDiskToList(FileHandle, DiskNumber, List): raw is what the device
\* answers (geometry, the MBR sector, IOCTL_DISK_GET_DRIVE_LAYOUT, and per
\* layout slot what its volume answers to MountVolume)
DiskStyleOf(raw) ==
    IF raw.Magic # PARTITION_MAGIC THEN "RAW"
    ELSE IF /\ raw.MbrType[1] = EFI_PMBR_OSTYPE_EFI
            /\ raw.MbrType[2] = 0
            /\ raw.MbrType[3] = 0
            /\ raw.MbrType[4] = 0
    THEN "GPT"
    ELSE "MBR"

RECURSIVE AddPartitions(_, _, _, _, _)
AddPartitions(ds, d, i, step, raw) ==
    IF i >= (IF step = 1 THEN 4 ELSE ds[d].LayoutBuffer.PartitionCount)
    THEN ds
    ELSE AddPartitions(AddPartitionToDisk(ds, d, i, step = 4, raw.Vol[i + 1]),
                       d, i + step, step, raw)

\* InsertAscendingList(&List->DiskListHead, DiskEntry, ..., DiskNumber)
InsertAscendingDisk(ds, DiskEntry) ==
    LET P == {k \in 1..Len(ds) : ds[k].DiskNumber > DiskEntry.DiskNumber}
        pos == IF P = {} THEN Len(ds) + 1
               ELSE CHOOSE k \in P : \A j \in P : k <= j
    IN  InsertBefore(ds, pos, DiskEntry)

AddDiskToList(ds, raw) ==
    LET DiskEntry ==
            [DiskNumber |-> raw.DiskNumber,
             MediaType |-> raw.MediaType,
             BiosFound |-> raw.BiosMatch,
             DiskStyle |-> DiskStyleOf(raw),
             SectorsPerTrack |-> raw.SectorsPerTrack,
             BytesPerSector |-> raw.BytesPerSector,
             SectorCount |-> U64(raw.Cylinders * raw.TracksPerCylinder
                                   * raw.SectorsPerTrack),
             SectorAlignment |-> raw.SectorsPerTrack,
             NewDisk |-> FALSE,
             Dirty |-> FALSE,
             LayoutBuffer |-> NullLayoutBuffer,
             PrimaryPartList |-> <<>>,
             Unlinked |-> <<>>,
             LogicalPartList |-> <<>>,
             ExtendedPartition |-> NULL]
        ds1 == InsertAscendingDisk(ds, DiskEntry)
        d == CHOOSE k \in 1..Len(ds1) : ds1[k].DiskNumber = raw.DiskNumber
        ds2 == [ds1 EXCEPT ![d].LayoutBuffer =
                   [IsNull |-> FALSE,
                    PartitionCount |-> raw.Layout.PartitionCount,
                    Signature |-> raw.Layout.Signature,
                    PartitionEntry |-> raw.Layout.PartitionEntry]]
        ds3 == IF ds2[d].LayoutBuffer.PartitionCount = 0
               THEN [ds2 EXCEPT
                       ![d].NewDisk = TRUE,
                       ![d].LayoutBuffer =
                           [IsNull |-> FALSE,
                            PartitionCount |-> 4,
                            Signature |-> raw.Layout.Signature,
                            PartitionEntry |->
                                [i \in 1..4 |->
                                   [raw.Layout.PartitionEntry[i]
                                      EXCEPT !.RewritePartition = TRUE]]]]
               ELSE AddPartitions(AddPartitions(ds2, d, 0, 1, raw), d, 4, 4, raw)
    IN  IF DiskEntry.DiskStyle = "GPT"
        THEN ds1
        ELSE ScanForUnpartitionedDiskSpace(ds3, d)

(***************************************************************************)
(* Signatures, drive letters, system disk                                  *)
(***************************************************************************)
\* a SetDiskSignature loop that ends on any non-zero value
SignatureAccepted_NoCompare(ds, d, sig) == sig # 0

\* SetDiskSignature(List, DiskEntry): sig is the value the clock produces on
\* the iteration that ends the loop; the loop goes on while the value is 0
\* or is the signature of another non-GPT disk
SignatureAccepted(ds, d, sig) ==
    /\ sig # 0
    /\ \A k \in 1..Len(ds) :
          (k # d /\ ds[k].DiskStyle # "GPT") => ds[k].LayoutBuffer.Signature # sig

SetDiskSignature(ds, d, sig) ==
    IF ds[d].DiskStyle = "GPT" THEN ds
    ELSE [ds EXCEPT ![d].LayoutBuffer.Signature = sig]

\* UpdateDiskSignatures(List): every clock value is taken to be the smallest
\* one that SetDiskSignature accepts
RECURSIVE UpdateDiskSignaturesFrom(_, _)
UpdateDiskSignaturesFrom(ds, d) ==
    IF d > Len(ds) THEN ds
    ELSE IF ds[d].DiskStyle = "GPT"
    THEN UpdateDiskSignaturesFrom(ds, d + 1)
    ELSE IF ~ds[d].LayoutBuffer.IsNull /\ ds[d].LayoutBuffer.Signature = 0
    THEN LET sig == CHOOSE v \in 1..(Len(ds) + 1) :
                       /\ SignatureAccepted(ds, d, v)
                       /\ \A w \in 1..(v - 1) : ~SignatureAccepted(ds, d, w)
             ds1 == SetDiskSignature(ds, d, sig)
         IN  UpdateDiskSignaturesFrom(
                 [ds1 EXCEPT ![d].LayoutBuffer.PartitionEntry[1].RewritePartition = TRUE],
                 d + 1)
    ELSE UpdateDiskSignaturesFrom(ds, d + 1)

UpdateDiskSignatures(ds) == UpdateDiskSignaturesFrom(ds, 1)

\* the regions GetAdjDiskRegion(DiskEntry, ., ENUM_REGION_NEXT | flag)
\* enumerates: flag is ENUM_REGION_MBR_LOGICAL_ONLY when LogicalOnly, else
\* ENUM_REGION_MBR_PRIMARY_ONLY; a disk that is not MBR always enumerates
\* its primary list
GetAdjDiskRegionList(DiskEntry, LogicalOnly) ==
    LogicalOnly /\ DiskEntry.DiskStyle = "MBR"

RECURSIVE DriveLetterVisits(_, _, _)
DriveLetterVisits(ds, d, LogicalOnly) ==
    IF d > Len(ds) THEN <<>>
    ELSE LET lg == GetAdjDiskRegionList(ds[d], LogicalOnly)
             s == PartList(ds[d], lg)
         IN  [k \in 1..Len(s) |->
                 [d |-> d, logical |-> lg, idx |-> k, second |-> LogicalOnly]]
             \o DriveLetterVisits(ds, d + 1, LogicalOnly)

\* a last letter one after 'Z'
LastDriveLetter_Beyond == LETTER_Z + 1

\* a first letter one after 'C'
FirstDriveLetter_D == LETTER_C + 1

\* the first and the last letter AssignDriveLetters hands out
FirstDriveLetter == LETTER_C
LastDriveLetter == LETTER_Z

RECURSIVE AssignDriveLettersWalk(_, _, _, _)
AssignDriveLettersWalk(ds, visits, k, Letter) ==
    IF k > Len(visits) THEN ds
    ELSE LET v == visits[k]
             PartEntry == PartList(ds[v.d], v.logical)[v.idx]
             eligible ==
                 /\ PartEntry.IsPartitioned
                 /\ (v.second \/ ~IsContainerPartition(PartEntry.PartitionType))
                 /\ (IsRecognizedPartition(PartEntry.PartitionType)
                       \/ PartEntry.SectorCount # 0)
             give == eligible /\ Letter <= LastDriveLetter
             p1 == [PartEntry EXCEPT !.Volume.DriveLetter =
                                         IF give THEN Letter ELSE 0]
             s1 == [PartList(ds[v.d], v.logical) EXCEPT ![v.idx] = p1]
         IN  AssignDriveLettersWalk(
                 [ds EXCEPT ![v.d] = SetPartList(ds[v.d], v.logical, s1)],
                 visits, k + 1,
                 IF give THEN Letter + 1 ELSE Letter)

AssignDriveLetters(ds) ==
    AssignDriveLettersWalk(ds,
        DriveLetterVisits(ds, 1, FALSE) \o DriveLetterVisits(ds, 1, TRUE),
        1, FirstDriveLetter)

(***************************************************************************)
(* Layout buffer                                                           *)
(***************************************************************************)
IsSuperFloppy(DiskEntry) ==
    /\ ~DiskEntry.LayoutBuffer.IsNull
    /\ DiskEntry.LayoutBuffer.PartitionCount = 1
    /\ DiskEntry.LayoutBuffer.PartitionEntry[1].StartingOffset = 0
    /\ DiskEntry.LayoutBuffer.PartitionEntry[1].HiddenSectors = 0

IsEmptyLayoutEntry(PartitionInfo) ==
    PartitionInfo.StartingOffset = 0 /\ PartitionInfo.PartitionLength = 0

IsSamePrimaryLayoutEntry(DiskEntry, PartitionInfo, PartEntry) ==
    /\ PartitionInfo.StartingOffset = GetPartEntryOffsetInBytes(DiskEntry, PartEntry)
    /\ PartitionInfo.PartitionLength = GetPartEntrySizeInBytes(DiskEntry, PartEntry)

GetPartitionCount(s) == Cardinality({k \in 1..Len(s) : s[k].IsPartitioned})

GetPrimaryPartitionCount(DiskEntry) == GetPartitionCount(DiskEntry.PrimaryPartList)

GetLogicalPartitionCount(DiskEntry) ==
    IF DiskEntry.DiskStyle = "MBR"
    THEN GetPartitionCount(DiskEntry.LogicalPartList)
    ELSE 0

\* ReAllocateLayoutBuffer(DiskEntry); allocOk is the outcome of
\* RtlReAllocateHeap(HEAP_ZERO_MEMORY).  Len(PartitionEntry) is the number
\* of entries the block has room for
ReAllocateLayoutBuffer(DiskEntry, allocOk) ==
    LET NewPartitionCount == 4 + GetLogicalPartitionCount(DiskEntry) * 4
        CurrentPartitionCount == IF DiskEntry.LayoutBuffer.IsNull THEN 0
                                 ELSE DiskEntry.LayoutBuffer.PartitionCount
        old == DiskEntry.LayoutBuffer.PartitionEntry
        moved == [i \in 1..NewPartitionCount |->
                    IF i <= Len(old) THEN old[i] ELSE ZeroSlot]
        new == [i \in 1..NewPartitionCount |->
                    IF i > CurrentPartitionCount
                    THEN [moved[i] EXCEPT !.RewritePartition = TRUE]
                    ELSE moved[i]]
    IN  IF CurrentPartitionCount = NewPartitionCount
        THEN [ok |-> TRUE, disk |-> DiskEntry]
        ELSE IF ~allocOk
        THEN [ok |-> FALSE, disk |-> DiskEntry]
        ELSE [ok |-> TRUE,
              disk |-> [DiskEntry EXCEPT !.LayoutBuffer =
                          [IsNull |-> FALSE,
                           PartitionCount |-> NewPartitionCount,
                           Signature |-> DiskEntry.LayoutBuffer.Signature,
                           PartitionEntry |-> new]]]

\* a store to LayoutBuffer->PartitionEntry[Index]; ASSERT(Index <= 4) and
\* the size ReAllocateLayoutBuffer chose keep Index inside the block
SetLayoutEntry(DiskEntry, Index, PartitionInfo) ==
    IF Index + 1 <= Len(DiskEntry.LayoutBuffer.PartitionEntry)
    THEN [DiskEntry EXCEPT !.LayoutBuffer.PartitionEntry[Index + 1] = PartitionInfo]
    ELSE DiskEntry

GetLayoutEntry(DiskEntry, Index) ==
    IF Index + 1 <= Len(DiskEntry.LayoutBuffer.PartitionEntry)
    THEN DiskEntry.LayoutBuffer.PartitionEntry[Index + 1]
    ELSE ZeroSlot

\* "Update the primary partition table" loop of UpdateDiskLayout from list
\* position k on
RECURSIVE UpdatePrimaryLayout(_, _, _, _)
UpdatePrimaryLayout(DiskEntry, k, Index, PartitionNumber) ==
    IF k > Len(DiskEntry.PrimaryPartList)
    THEN [disk |-> DiskEntry, PartitionNumber |-> PartitionNumber]
    ELSE LET P0 == DiskEntry.PrimaryPartList[k]
             container == IsContainerPartition(P0.PartitionType)
             PartEntry == [P0 EXCEPT
                             !.PartitionIndex = Index,
                             !.PartitionNumber = IF P0.New THEN 0 ELSE @,
                             !.OnDiskPartitionNumber =
                                 IF container THEN 0 ELSE PartitionNumber]
             d1 == [DiskEntry EXCEPT !.PrimaryPartList[k] = PartEntry]
             PartitionInfo == GetLayoutEntry(d1, Index)
             d2 == IF IsSamePrimaryLayoutEntry(d1, PartitionInfo, PartEntry)
                   THEN d1
                   ELSE SetLayoutEntry(d1, Index,
                          [StartingOffset |-> GetPartEntryOffsetInBytes(d1, PartEntry),
                           PartitionLength |-> GetPartEntrySizeInBytes(d1, PartEntry),
                           HiddenSectors |-> PartEntry.StartSector,
                           PartitionNumber |-> PartEntry.PartitionNumber,
                           PartitionType |-> PartEntry.PartitionType,
                           BootIndicator |-> PartEntry.BootIndicator,
                           RecognizedPartition |->
                               IsRecognizedPartition(PartEntry.PartitionType),
                           RewritePartition |-> TRUE])
         IN  IF ~P0.IsPartitioned
             THEN UpdatePrimaryLayout(DiskEntry, k + 1, Index, PartitionNumber)
             ELSE UpdatePrimaryLayout(d2, k + 1, Index + 1,
                                      IF container THEN PartitionNumber
                                      ELSE PartitionNumber + 1)

\* "Update the logical partition table" loop; LinkIndex is the index of the
\* entry LinkInfo points to, -1 when LinkInfo is NULL
RECURSIVE UpdateLogicalLayout(_, _, _, _, _)
UpdateLogicalLayout(DiskEntry, k, Index, PartitionNumber, LinkIndex) ==
    IF k > Len(DiskEntry.LogicalPartList)
    THEN DiskEntry
    ELSE LET P0 == DiskEntry.LogicalPartList[k]
             PartEntry == [P0 EXCEPT
                             !.PartitionIndex = Index,
                             !.PartitionNumber = IF P0.New THEN 0 ELSE @,
                             !.OnDiskPartitionNumber = PartitionNumber]
             d1 == [DiskEntry EXCEPT !.LogicalPartList[k] = PartEntry]
             d2 == SetLayoutEntry(d1, Index,
                          [StartingOffset |-> GetPartEntryOffsetInBytes(d1, PartEntry),
                           PartitionLength |-> GetPartEntrySizeInBytes(d1, PartEntry),
                           HiddenSectors |-> d1.SectorAlignment,
                           PartitionNumber |-> PartEntry.PartitionNumber,
                           PartitionType |-> PartEntry.PartitionType,
                           BootIndicator |-> FALSE,
                           RecognizedPartition |->
                               IsRecognizedPartition(PartEntry.PartitionType),
                           RewritePartition |-> TRUE])
             ExtStart == IF d1.ExtendedPartition = NULL THEN 0
                         ELSE ExtendedPartitionOf(d1).StartSector
             d3 == IF LinkIndex < 0 THEN d2
                   ELSE SetLayoutEntry(d2, LinkIndex,
                          [StartingOffset |->
                               SectorsToBytes(U64(PartEntry.StartSector - d1.SectorAlignment),
                                              d1.BytesPerSector),
                           PartitionLength |->
                               SectorsToBytes(U64(PartEntry.StartSector + d1.SectorAlignment),
                                              d1.BytesPerSector),
                           HiddenSectors |->
                               U64(PartEntry.StartSector - d1.SectorAlignment - ExtStart),
                           PartitionNumber |-> 0,
                           PartitionType |->
                               IF PartEntry.StartSector < CHS_LBA_BOUNDARY
                               THEN PARTITION_EXTENDED
                               ELSE PARTITION_XINT13_EXTENDED,
                           BootIndicator |-> FALSE,
                           RecognizedPartition |-> FALSE,
                           RewritePartition |-> TRUE])
         IN  IF ~P0.IsPartitioned
             THEN UpdateLogicalLayout(DiskEntry, k + 1, Index, PartitionNumber, LinkIndex)
             ELSE UpdateLogicalLayout(d3, k + 1, Index + 4, PartitionNumber + 1,
                                      Index + 1)

\* the wiped form of a layout entry
WipedLayoutEntry == [ZeroSlot EXCEPT !.RewritePartition = TRUE]

\* the two "Wipe unused ... partition entries" loops
WipeUnusedLayoutEntries(DiskEntry) ==
    LET n == GetPrimaryPartitionCount(DiskEntry)
        e == DiskEntry.LayoutBuffer.PartitionEntry
        wiped == [i \in 1..Len(e) |->
                    LET Index == i - 1 IN
                    IF /\ Index < DiskEntry.LayoutBuffer.PartitionCount
                       /\ \/ (Index >= n /\ Index < 4)
                          \/ (Index >= 4 /\ Index % 4 >= 2)
                       /\ ~IsEmptyLayoutEntry(e[i])
                    THEN WipedLayoutEntry
                    ELSE e[i]]
    IN  [DiskEntry EXCEPT !.LayoutBuffer.PartitionEntry = wiped]

\* an UpdateDiskLayout without the test for GPT disks
UpdateDiskLayout_NoGptGuard(DiskEntry, allocOk) ==
    LET r == ReAllocateLayoutBuffer(DiskEntry, allocOk)
        p == UpdatePrimaryLayout(r.disk, 1, 0, 1)
        l == UpdateLogicalLayout(p.disk, 1, 4, p.PartitionNumber, -1)
        w == WipeUnusedLayoutEntries(l)
    IN  IF ~r.ok THEN DiskEntry
        ELSE [w EXCEPT !.DiskStyle = "MBR", !.Dirty = TRUE]

\* UpdateDiskLayout(DiskEntry)
UpdateDiskLayout(DiskEntry, allocOk) ==
    LET r == ReAllocateLayoutBuffer(DiskEntry, allocOk)
        p == UpdatePrimaryLayout(r.disk, 1, 0, 1)
        l == UpdateLogicalLayout(p.disk, 1, 4, p.PartitionNumber, -1)
        w == WipeUnusedLayoutEntries(l)
    IN  IF DiskEntry.DiskStyle = "GPT" THEN DiskEntry
        ELSE IF ~r.ok THEN DiskEntry
        ELSE [w EXCEPT !.DiskStyle = "MBR", !.Dirty = TRUE]

(***************************************************************************)
(* Editor: creation                                                        *)
(***************************************************************************)
\* a PARTENTRY pointer is the triple <<disk, list, position>> of the region
\* it refers to; RegionAt reads through it
RegionAt(ds, d, Logical, idx) == PartList(ds[d], Logical)[idx]

\* RtlAllocateHeap for a PARTENTRY: a block that is not in use.  The block
\* a dangling pointer (keep) still refers to is free memory as well, and
\* the heap hands it out again when reuse is set
AllocBlock(used, keep, reuse) ==
    IF reuse /\ keep # NULL /\ keep \notin used
    THEN keep
    ELSE FreeId(used \cup {keep})

\* a PartitionCreationChecks without the tests for a super-floppy
PartitionCreationChecks_NoFloppy(DiskEntry, PartEntry) ==
    IF DiskEntry.DiskStyle = "GPT" THEN "ERROR_WARN_PARTITION"
    ELSE IF PartEntry.IsPartitioned THEN "ERROR_NEW_PARTITION"
    ELSE IF ~PartEntry.LogicalPartition /\ GetPrimaryPartitionCount(DiskEntry) >= 4
    THEN "ERROR_PARTITION_TABLE_FULL"
    ELSE "ERROR_SUCCESS"

\* a PartitionCreationChecks without the test for four primary partitions
PartitionCreationChecks_NoLimit(DiskEntry, PartEntry) ==
    IF DiskEntry.DiskStyle = "GPT" THEN "ERROR_WARN_PARTITION"
    ELSE IF PartEntry.IsPartitioned THEN "ERROR_NEW_PARTITION"
    ELSE IF IsSuperFloppy(DiskEntry) THEN "ERROR_PARTITION_TABLE_FULL"
    ELSE "ERROR_SUCCESS"

\* PartitionCreationChecks(PartEntry): the ERROR_NUMBER it returns
PartitionCreationChecks(DiskEntry, PartEntry) ==
    IF DiskEntry.DiskStyle = "GPT" THEN "ERROR_WARN_PARTITION"
    ELSE IF PartEntry.IsPartitioned THEN "ERROR_NEW_PARTITION"
    ELSE IF ~PartEntry.LogicalPartition
    THEN IF IsSuperFloppy(DiskEntry) THEN "ERROR_PARTITION_TABLE_FULL"
         ELSE IF GetPrimaryPartitionCount(DiskEntry) >= 4
         THEN "ERROR_PARTITION_TABLE_FULL"
         ELSE "ERROR_SUCCESS"
    ELSE IF IsSuperFloppy(DiskEntry) THEN "ERROR_PARTITION_TABLE_FULL"
    ELSE "ERROR_SUCCESS"

\* an ExtendedPartitionCreationChecks without the test for a second
\* extended partition
ExtendedPartitionCreationChecks_Second(DiskEntry, PartEntry) ==
    IF DiskEntry.DiskStyle = "GPT" THEN "ERROR_WARN_PARTITION"
    ELSE IF PartEntry.IsPartitioned THEN "ERROR_NEW_PARTITION"
    ELSE IF IsSuperFloppy(DiskEntry) THEN "ERROR_PARTITION_TABLE_FULL"
    ELSE IF GetPrimaryPartitionCount(DiskEntry) >= 4
    THEN "ERROR_PARTITION_TABLE_FULL"
    ELSE "ERROR_SUCCESS"

\* ExtendedPartitionCreationChecks(PartEntry): the ERROR_NUMBER it returns
ExtendedPartitionCreationChecks(DiskEntry, PartEntry) ==
    IF DiskEntry.DiskStyle = "GPT" THEN "ERROR_WARN_PARTITION"
    ELSE IF PartEntry.IsPartitioned THEN "ERROR_NEW_PARTITION"
    ELSE IF IsSuperFloppy(DiskEntry) THEN "ERROR_PARTITION_TABLE_FULL"
    ELSE IF GetPrimaryPartitionCount(DiskEntry) >= 4
    THEN "ERROR_PARTITION_TABLE_FULL"
    ELSE IF DiskEntry.ExtendedPartition # NULL THEN "ERROR_ONLY_ONE_EXTENDED"
    ELSE "ERROR_SUCCESS"

\* the sector at which InitializePartitionEntry ends the partition
SplitSector(DiskEntry, PartEntry, SectorCount) ==
    AlignDown(U64(PartEntry.StartSector + SectorCount), DiskEntry.SectorAlignment)

\* whether InitializePartitionEntry reuses the whole current entry
ReuseWholeEntry(DiskEntry, PartEntry, SectorCount) ==
    \/ SectorCount = 0
    \/ U64(SplitSector(DiskEntry, PartEntry, SectorCount) - PartEntry.StartSector)
          = PartEntry.SectorCount

\* an InitializePartitionEntry that resizes the entry before it allocates
\* the region for the remaining space
InitializePartitionEntry_ResizeFirst(DiskEntry, Logical, idx, SectorCount, allocOk, id) ==
    LET s == PartList(DiskEntry, Logical)
        PartEntry == s[idx]
        whole == ReuseWholeEntry(DiskEntry, PartEntry, SectorCount)
        StartSector == SplitSector(DiskEntry, PartEntry, SectorCount)
        SectorCount2 == U64(PartEntry.StartSector + PartEntry.SectorCount - StartSector)
        p1 == IF whole THEN PartEntry
              ELSE [PartEntry EXCEPT !.SectorCount =
                                        U64(StartSector - PartEntry.StartSector)]
        s1 == IF whole THEN s
              ELSE CreateInsertBlankRegion(s, idx + 1, id, StartSector, SectorCount2,
                                           PartEntry.LogicalPartition)
        p2 == [p1 EXCEPT
                 !.New = TRUE,
                 !.IsPartitioned = TRUE,
                 !.PartitionType = FileSystemToMBRPartitionType(p1.StartSector,
                                                                p1.SectorCount),
                 !.Volume = [ZeroVolume EXCEPT !.New = TRUE],
                 !.BootIndicator = FALSE]
    IN  IF SectorCount > PartEntry.SectorCount
        THEN [ok |-> FALSE, disk |-> DiskEntry]
        ELSE IF ~whole /\ ~allocOk
        THEN [ok |-> FALSE,
              disk |-> SetPartList(DiskEntry, Logical, [s EXCEPT ![idx] = p1])]
        ELSE [ok |-> TRUE,
              disk |-> SetPartList(DiskEntry, Logical, [s1 EXCEPT ![idx] = p2])]

\* InitializePartitionEntry(PartEntry, SectorCount) on the region at
\* position idx; allocOk is the outcome of the allocation of the region
\* for the remaining space and id the block it returns
InitializePartitionEntry(DiskEntry, Logical, idx, SectorCount, allocOk, id) ==
    LET s == PartList(DiskEntry, Logical)
        PartEntry == s[idx]
        whole == ReuseWholeEntry(DiskEntry, PartEntry, SectorCount)
        StartSector == SplitSector(DiskEntry, PartEntry, SectorCount)
        SectorCount2 == U64(PartEntry.StartSector + PartEntry.SectorCount - StartSector)
        s1 == IF whole THEN s
              ELSE CreateInsertBlankRegion(s, idx + 1, id, StartSector, SectorCount2,
                                           PartEntry.LogicalPartition)
        p1 == IF whole THEN PartEntry
              ELSE [PartEntry EXCEPT !.SectorCount =
                                        U64(StartSector - PartEntry.StartSector)]
        p2 == [p1 EXCEPT
                 !.New = TRUE,
                 !.IsPartitioned = TRUE,
                 !.PartitionType = FileSystemToMBRPartitionType(p1.StartSector,
                                                                p1.SectorCount),
                 !.Volume = [ZeroVolume EXCEPT !.New = TRUE],
                 !.BootIndicator = FALSE]
    IN  IF SectorCount > PartEntry.SectorCount
        THEN [ok |-> FALSE, disk |-> DiskEntry]
        ELSE IF ~whole /\ ~allocOk
        THEN [ok |-> FALSE, disk |-> DiskEntry]
        ELSE [ok |-> TRUE,
              disk |-> SetPartList(DiskEntry, Logical, [s1 EXCEPT ![idx] = p2])]

\* "Convert to sector count" of CreatePartition and CreateExtendedPartition:
\* 0 when the size is too small
SizeToSectorCount(DiskEntry, PartEntry, SizeBytes) ==
    IF SizeBytes = 0 \/ SizeBytes = GetPartEntrySizeInBytes(DiskEntry, PartEntry)
    THEN PartEntry.SectorCount
    ELSE Min(SizeBytes \div DiskEntry.BytesPerSector, PartEntry.SectorCount)

SizeTooSmall(DiskEntry, PartEntry, SizeBytes) ==
    /\ ~(SizeBytes = 0 \/ SizeBytes = GetPartEntrySizeInBytes(DiskEntry, PartEntry))
    /\ SizeToSectorCount(DiskEntry, PartEntry, SizeBytes) = 0

\* what a call that returns FALSE yields: the return path taken (why) and
\* the disks as the call leaves them
Failed(why, ds) == [ok |-> FALSE, why |-> why, disks |-> ds]

\* CreatePartition(List, PartEntry, SizeBytes); idx = 0 is a NULL PartEntry;
\* heap gives the outcome of each allocation the call makes
CreatePartition(ds, sp, d, Logical, idx, SizeBytes, heap) ==
    LET DiskEntry == ds[d]
        PartEntry == RegionAt(ds, d, Logical, idx)
        SectorCount == SizeToSectorCount(DiskEntry, PartEntry, SizeBytes)
        i == InitializePartitionEntry(DiskEntry, Logical, idx, SectorCount, heap.split,
                                      AllocBlock(AllIds(ds), sp, heap.reuse))
        ds1 == [ds EXCEPT ![d] = UpdateDiskLayout(i.disk, heap.layout)]
    IN  IF idx = 0 THEN Failed("null", ds)
        ELSE IF PartEntry.IsPartitioned THEN Failed("in_use", ds)
        ELSE IF PartitionCreationChecks(DiskEntry, PartEntry) # "ERROR_SUCCESS"
        THEN Failed("checks", ds)
        ELSE IF SizeTooSmall(DiskEntry, PartEntry, SizeBytes)
        THEN Failed("too_small", ds)
        ELSE IF ~i.ok THEN Failed("no_memory", [ds EXCEPT ![d] = i.disk])
        ELSE [ok |-> TRUE, why |-> "", disks |-> AssignDriveLetters(ds1)]

\* AddLogicalDiskSpace(DiskEntry)
AddLogicalDiskSpace(DiskEntry, allocOk, id) ==
    LET Ext == ExtendedPartitionOf(DiskEntry)
        StartSector == U64(Ext.StartSector + DiskEntry.SectorAlignment)
        SectorCount == U64(Ext.SectorCount - DiskEntry.SectorAlignment)
    IN  IF ~allocOk THEN DiskEntry
        ELSE [DiskEntry EXCEPT !.LogicalPartList =
                 CreateInsertBlankRegion(DiskEntry.LogicalPartList,
                                         Len(DiskEntry.LogicalPartList) + 1,
                                         id, StartSector, SectorCount, TRUE)]

\* CreateExtendedPartition(List, PartEntry, SizeBytes)
CreateExtendedPartition(ds, sp, d, Logical, idx, SizeBytes, heap) ==
    LET DiskEntry == ds[d]
        PartEntry == RegionAt(ds, d, Logical, idx)
        SectorCount == SizeToSectorCount(DiskEntry, PartEntry, SizeBytes)
        i == InitializePartitionEntry(DiskEntry, Logical, idx, SectorCount, heap.split,
                                      AllocBlock(AllIds(ds), sp, heap.reuse))
        P1 == PartList(i.disk, Logical)[idx]
        P2 == [P1 EXCEPT !.PartitionType =
                  IF P1.StartSector < CHS_LBA_BOUNDARY
                  THEN PARTITION_EXTENDED
                  ELSE PARTITION_XINT13_EXTENDED]
        d1 == [SetPartList(i.disk, Logical,
                           [PartList(i.disk, Logical) EXCEPT ![idx] = P2])
                 EXCEPT !.ExtendedPartition = P2.id]
        used1 == AllIds([ds EXCEPT ![d] = d1])
        d2 == AddLogicalDiskSpace(d1, heap.logical,
                                  AllocBlock(used1, sp,
                                             heap.reuse /\ used1 = AllIds(ds)))
        ds1 == [ds EXCEPT ![d] = UpdateDiskLayout(d2, heap.layout)]
    IN  IF idx = 0 THEN Failed("null", ds)
        ELSE IF PartEntry.IsPartitioned THEN Failed("in_use", ds)
        ELSE IF ExtendedPartitionCreationChecks(DiskEntry, PartEntry) # "ERROR_SUCCESS"
        THEN Failed("checks", ds)
        ELSE IF SizeTooSmall(DiskEntry, PartEntry, SizeBytes)
        THEN Failed("too_small", ds)
        ELSE IF ~i.ok THEN Failed("no_memory", [ds EXCEPT ![d] = i.disk])
        ELSE [ok |-> TRUE, why |-> "", disks |-> AssignDriveLetters(ds1)]

(***************************************************************************)
(* Editor: deletion                                                        *)
(***************************************************************************)
\* the test "the partition is valid and was mounted by the system" of
\* DeletePartition
IsMountedPartition(PartEntry) ==
    /\ PartEntry.IsPartitioned
    /\ ~IsContainerPartition(PartEntry.PartitionType)
    /\ IsRecognizedPartition(PartEntry.PartitionType)
    /\ PartEntry.Volume.FormatState # "UnknownFormat"
    /\ PartEntry.Volume.FileSystem # ""
    /\ PartEntry.PartitionNumber # 0

\* a GetAdjUnpartitionedEntry that finds the previous region only
GetAdjUnpartitionedEntry_PrevOnly(s, idx, Direction) ==
    LET k == idx - 1
    IN  IF ~Direction /\ k >= 1 /\ ~s[k].IsPartitioned THEN k ELSE 0

\* GetAdjUnpartitionedEntry(PartEntry, Direction) for the region at position
\* idx of list s: the position of the adjacent region when it is
\* unpartitioned, 0 for NULL
GetAdjUnpartitionedEntry(s, idx, Direction) ==
    LET k == IF Direction THEN idx + 1 ELSE idx - 1
    IN  IF k >= 1 /\ k <= Len(s) /\ ~s[k].IsPartitioned THEN k ELSE 0

\* a merge with the next region that leaves the start of that region alone
MergeUnpartitioned_KeepStart(s, idx) ==
    LET PartEntry == s[idx]
        prev == GetAdjUnpartitionedEntry(s, idx, FALSE)
        next == GetAdjUnpartitionedEntry(s, idx, TRUE)
    IN  IF prev # 0 /\ next # 0
        THEN RemoveAt(RemoveAt(
                 [s EXCEPT ![prev].SectorCount =
                      U64(@ + U64(PartEntry.SectorCount + s[next].SectorCount))],
                 next), idx)
        ELSE IF prev # 0
        THEN RemoveAt([s EXCEPT ![prev].SectorCount = U64(@ + PartEntry.SectorCount)],
                      idx)
        ELSE IF next # 0
        THEN RemoveAt([s EXCEPT ![next].SectorCount = U64(@ + PartEntry.SectorCount)],
                      idx)
        ELSE [s EXCEPT ![idx] =
                 [PartEntry EXCEPT !.IsPartitioned = FALSE,
                                   !.OnDiskPartitionNumber = 0,
                                   !.PartitionNumber = 0,
                                   !.BootIndicator = FALSE,
                                   !.PartitionType = PARTITION_ENTRY_UNUSED,
                                   !.Volume = ZeroVolume]]

\* a MergeUnpartitioned that drops the deleted region without growing the
\* free region next to it
MergeUnpartitioned_Lossy(s, idx) ==
    IF \/ GetAdjUnpartitionedEntry(s, idx, FALSE) # 0
       \/ GetAdjUnpartitionedEntry(s, idx, TRUE) # 0
    THEN RemoveAt(s, idx)
    ELSE MergeUnpartitioned_KeepStart(s, idx)

\* "Adjust the unpartitioned disk space entries" of DeletePartition
MergeUnpartitioned(s, idx) ==
    LET PartEntry == s[idx]
        prev == GetAdjUnpartitionedEntry(s, idx, FALSE)
        next == GetAdjUnpartitionedEntry(s, idx, TRUE)
    IN  IF prev # 0 /\ next # 0
        THEN RemoveAt(RemoveAt(
                 [s EXCEPT ![prev].SectorCount =
                      U64(@ + U64(PartEntry.SectorCount + s[next].SectorCount))],
                 next), idx)
        ELSE IF prev # 0
        THEN RemoveAt([s EXCEPT ![prev].SectorCount = U64(@ + PartEntry.SectorCount)],
                      idx)
        ELSE IF next # 0
        THEN RemoveAt([s EXCEPT ![next].StartSector = PartEntry.StartSector,
                                ![next].SectorCount = U64(@ + PartEntry.SectorCount)],
                      idx)
        ELSE [s EXCEPT ![idx] =
                 [PartEntry EXCEPT !.IsPartitioned = FALSE,
                                   !.OnDiskPartitionNumber = 0,
                                   !.PartitionNumber = 0,
                                   !.BootIndicator = FALSE,
                                   !.PartitionType = PARTITION_ENTRY_UNUSED,
                                   !.Volume = ZeroVolume]]

\* a FreedRegion that always names the deleted region itself
FreedRegion_Deleted(s, idx) == s[idx].id

\* the region DeletePartition hands back through FreeRegion: the previous
\* region when it is unpartitioned, else the next one when it is
\* unpartitioned, else the deleted region itself
FreedRegion(s, idx) ==
    IF GetAdjUnpartitionedEntry(s, idx, FALSE) # 0
    THEN s[GetAdjUnpartitionedEntry(s, idx, FALSE)].id
    ELSE IF GetAdjUnpartitionedEntry(s, idx, TRUE) # 0
    THEN s[GetAdjUnpartitionedEntry(s, idx, TRUE)].id
    ELSE s[idx].id

\* the regions whose volume DeletePartition hands to DismountVolume: in the
\* loop over the logical list the mounted test reads PartEntry, the region
\* being deleted, and the call is made on LogicalPartEntry
DismountedVolumes(DiskEntry, PartEntry) ==
    IF DiskEntry.ExtendedPartition = PartEntry.id
    THEN {DiskEntry.LogicalPartList[i].id :
             i \in {k \in DOMAIN DiskEntry.LogicalPartList :
                       IsMountedPartition(PartEntry)}}
    ELSE IF IsMountedPartition(PartEntry) THEN {PartEntry.id} ELSE {}

\* DeletePartition(List, PartEntry, NULL); idx = 0 is a NULL PartEntry;
\* openOk is the outcome of the NtOpenFile of DismountVolume, allocOk that of
\* the reallocation of the layout buffer.  Returns the new disks, the new
\* List->SystemPartition and the region stored in *FreeRegion
DeletePartition(ds, sp, d, Logical, idx, openOk, allocOk) ==
    LET DiskEntry == ds[d]
        PartEntry == RegionAt(ds, d, Logical, idx)
        sp1 == IF sp = PartEntry.id THEN NULL ELSE sp
        isExt == DiskEntry.ExtendedPartition = PartEntry.id
        d1 == IF isExt
              THEN [DiskEntry EXCEPT !.LogicalPartList = <<>>,
                                     !.ExtendedPartition = NULL]
              ELSE IF IsMountedPartition(PartEntry)
              THEN SetPartList(DiskEntry, Logical,
                       [PartList(DiskEntry, Logical) EXCEPT
                           ![idx].Volume = DismountVolume(@, openOk)])
              ELSE DiskEntry
        d2 == SetPartList(d1, Logical, MergeUnpartitioned(PartList(d1, Logical), idx))
        ds1 == [ds EXCEPT ![d] = UpdateDiskLayout(d2, allocOk)]
    IN  IF idx = 0
        THEN [ok |-> FALSE, why |-> "null", disks |-> ds, sp |-> sp,
              FreeRegion |-> NULL, Dismounted |-> {}]
        ELSE IF ~PartEntry.IsPartitioned
        THEN [ok |-> FALSE, why |-> "free", disks |-> ds, sp |-> sp,
              FreeRegion |-> NULL, Dismounted |-> {}]
        ELSE [ok |-> TRUE, why |-> "", disks |-> AssignDriveLetters(ds1), sp |-> sp1,
              FreeRegion |-> FreedRegion(PartList(d1, Logical), idx),
              Dismounted |-> DismountedVolumes(DiskEntry, PartEntry)]

(***************************************************************************)
(* System disk and active partition                                        *)
(***************************************************************************)
\* the disk a PARTENTRY block belongs to, 0 when no list links the block
DiskOfId(ds, id) ==
    IF \E d \in 1..Len(ds) : id \in AllIds(<<ds[d]>>)
    THEN CHOOSE d \in 1..Len(ds) : id \in AllIds(<<ds[d]>>)
    ELSE 0

\* a pointer to a PARTENTRY that has been freed
IsDangling(ds, id) == id # NULL /\ id \notin AllIds(ds)

\* GetSystemDisk(List): the index of the disk, 0 for NULL.  freed is what
\* the read of SystemPartition->DiskEntry yields when the block was freed
GetSystemDisk(ds, sp, freed) ==
    LET C == {d \in 1..Len(ds) :
                 ds[d].MediaType = "FixedMedia" /\ ds[d].BiosFound}
    IN  IF ds = <<>> THEN 0
        ELSE IF sp # NULL
        THEN (IF IsDangling(ds, sp) THEN freed ELSE DiskOfId(ds, sp))
        ELSE IF C = {} THEN 0
        ELSE CHOOSE d \in C : \A e \in C : d <= e

IsPartitionActive(PartEntry) ==
    IF IsContainerPartition(PartEntry.PartitionType) THEN FALSE
    ELSE PartEntry.IsPartitioned /\ PartEntry.BootIndicator

\* GetActiveDiskPartition(DiskEntry): the position in the primary list of
\* the first active partition, 0 for NULL
GetActiveDiskPartition(DiskEntry) ==
    LET s == DiskEntry.PrimaryPartList
        A == {k \in 1..Len(s) : IsPartitionActive(s[k])}
    IN  IF s = <<>> THEN 0
        ELSE IF DiskEntry.DiskStyle = "GPT" THEN 0
        ELSE IF A = {} THEN 0
        ELSE CHOOSE k \in A : \A j \in A : k <= j

\* the two stores "PartitionEntry[PartEntry->PartitionIndex].BootIndicator =
\* b; ....RewritePartition = TRUE; DiskEntry->Dirty = TRUE"
SetLayoutBootIndicator(DiskEntry, PartEntry, b) ==
    [SetLayoutEntry(DiskEntry, PartEntry.PartitionIndex,
                    [GetLayoutEntry(DiskEntry, PartEntry.PartitionIndex) EXCEPT
                        !.BootIndicator = b, !.RewritePartition = TRUE])
       EXCEPT !.Dirty = TRUE]

\* SetActivePartition(List, PartEntry, NULL); idx = 0 is a NULL PartEntry
SetActivePartition(ds, sp, d, Logical, idx, freed) ==
    LET PartEntry == RegionAt(ds, d, Logical, idx)
        old == GetActiveDiskPartition(ds[d])
        d1 == IF old = 0 THEN ds[d]
              ELSE SetLayoutBootIndicator(
                       [ds[d] EXCEPT !.PrimaryPartList[old].BootIndicator = FALSE],
                       ds[d].PrimaryPartList[old], FALSE)
        sp1 == IF d = GetSystemDisk(ds, sp, freed) THEN PartEntry.id ELSE sp
        s1 == [PartList(d1, Logical) EXCEPT ![idx].BootIndicator = TRUE]
        d2 == SetLayoutBootIndicator(SetPartList(d1, Logical, s1), PartEntry, TRUE)
    IN  IF ds = <<>> \/ idx = 0
        THEN [ok |-> FALSE, why |-> "null", disks |-> ds, sp |-> sp]
        ELSE IF PartEntry.id = sp
        THEN [ok |-> TRUE, why |-> "", disks |-> ds, sp |-> sp]
        ELSE [ok |-> TRUE, why |-> "", disks |-> [ds EXCEPT ![d] = d2], sp |-> sp1]

(***************************************************************************)
(* Write-back                                                              *)
(***************************************************************************)
\* the OldActivePart SetActivePartition works with: the hint h when it is
\* active and on the disk of the region p, else what GetActiveDiskPartition
\* finds on that disk; position 0 is NULL
OldActivePartOf(ds, p, h) ==
    IF h[3] # 0 /\ IsPartitionActive(RegionAt(ds, h[1], h[2], h[3])) /\ h[1] = p[1]
    THEN h
    ELSE <<p[1], FALSE, GetActiveDiskPartition(ds[p[1]])>>

\* SetActivePartition(List, PartEntry, OldActivePart); p is PartEntry and h
\* is OldActivePart, position 0 is NULL
SetActivePartitionHinted(ds, sp, p, h, freed) ==
    LET d == p[1]
        PartEntry == RegionAt(ds, d, p[2], p[3])
        old == OldActivePartOf(ds, p, h)
        OldActivePart == RegionAt(ds, old[1], old[2], old[3])
        d1 == IF old[3] = 0 THEN ds[d]
              ELSE SetLayoutBootIndicator(
                       SetPartList(ds[d], old[2],
                           [PartList(ds[d], old[2]) EXCEPT ![old[3]].BootIndicator = FALSE]),
                       OldActivePart, FALSE)
        sp1 == IF d = GetSystemDisk(ds, sp, freed) THEN PartEntry.id ELSE sp
        s1 == [PartList(d1, p[2]) EXCEPT ![p[3]].BootIndicator = TRUE]
        d2 == SetLayoutBootIndicator(SetPartList(d1, p[2], s1), PartEntry, TRUE)
    IN  IF ds = <<>> \/ p[3] = 0
        THEN [ok |-> FALSE, why |-> "null", disks |-> ds, sp |-> sp]
        ELSE IF PartEntry.id = sp
                  \/ (h[3] # 0 /\ h = p
                        /\ IsPartitionActive(RegionAt(ds, h[1], h[2], h[3])))
        THEN [ok |-> TRUE, why |-> "", disks |-> ds, sp |-> sp]
        ELSE [ok |-> TRUE, why |-> "", disks |-> [ds EXCEPT ![d] = d2], sp |-> sp1]

\* what IOCTL_DISK_SET_DRIVE_LAYOUT returns in the layout buffer: the
\* driver numbers the used non-container entries in table order and
\* reports 0 for the others
DriverPartitionNumber(e, i) ==
    IF e[i].PartitionType = PARTITION_ENTRY_UNUSED
         \/ IsContainerPartition(e[i].PartitionType)
    THEN 0
    ELSE Cardinality({j \in 1..i :
                        /\ e[j].PartitionType # PARTITION_ENTRY_UNUSED
                        /\ ~IsContainerPartition(e[j].PartitionType)})

SetDriveLayout(LayoutBuffer) ==
    [LayoutBuffer EXCEPT !.PartitionEntry =
        [i \in 1..Len(LayoutBuffer.PartitionEntry) |->
            IF i <= LayoutBuffer.PartitionCount
            THEN [LayoutBuffer.PartitionEntry[i] EXCEPT !.PartitionNumber =
                      DriverPartitionNumber(LayoutBuffer.PartitionEntry, i)]
            ELSE LayoutBuffer.PartitionEntry[i]]]

\* an update loop that takes the partition numbers but leaves the New flags
UpdatePartitionNumbers_KeepNew(DiskEntry, s) ==
    [k \in 1..Len(s) |->
        IF s[k].IsPartitioned
        THEN [s[k] EXCEPT !.PartitionNumber =
                              GetLayoutEntry(DiskEntry, s[k].PartitionIndex).PartitionNumber]
        ELSE s[k]]

\* "Update the partition table" loop of WritePartitions on one list
UpdatePartitionNumbers(DiskEntry, s) ==
    [k \in 1..Len(s) |->
        IF s[k].IsPartitioned
        THEN [s[k] EXCEPT !.New = FALSE,
                          !.PartitionNumber =
                              GetLayoutEntry(DiskEntry, s[k].PartitionIndex).PartitionNumber]
        ELSE s[k]]

\* WritePartitions(DiskEntry); io.openOk is the outcome of NtOpenFile and
\* io.ioctlOk that of IOCTL_DISK_SET_DRIVE_LAYOUT
WritePartitions(DiskEntry, io) ==
    LET d1 == [DiskEntry EXCEPT !.LayoutBuffer = SetDriveLayout(@)]
        d2 == [d1 EXCEPT
                 !.PrimaryPartList = UpdatePartitionNumbers(d1, @),
                 !.LogicalPartList = IF d1.DiskStyle = "MBR"
                                     THEN UpdatePartitionNumbers(d1, @)
                                     ELSE @]
    IN  IF ~DiskEntry.Dirty THEN DiskEntry
        ELSE IF ~io.openOk THEN DiskEntry
        ELSE IF ~io.ioctlOk THEN DiskEntry
        ELSE [d2 EXCEPT !.DiskStyle = "MBR", !.Dirty = FALSE]

\* the NTSTATUS WritePartitions returns
WritePartitionsStatus(DiskEntry, io) ==
    IF ~DiskEntry.Dirty THEN "STATUS_SUCCESS"
    ELSE IF ~io.openOk THEN "NtOpenFile failed"
    ELSE IF ~io.ioctlOk THEN "IOCTL_DISK_SET_DRIVE_LAYOUT failed"
    ELSE "STATUS_SUCCESS"

\* the calls WritePartitions makes to the device, in order
WritePartitionsCalls(DiskEntry, io) ==
    IF ~DiskEntry.Dirty THEN <<>>
    ELSE IF ~io.openOk THEN <<"NtOpenFile">>
    ELSE <<"NtOpenFile", "IOCTL_DISK_SET_DRIVE_LAYOUT", "NtClose">>

\* the calls WritePartitions makes on FileHandle; an NtOpenFile that fails
\* returns no handle
WritePartitionsHandles(DiskEntry, io) ==
    IF WritePartitionsStatus(DiskEntry, io) = "NtOpenFile failed" THEN <<>>
    ELSE WritePartitionsCalls(DiskEntry, io)

\* WritePartitionsToDisk(List); io[d] is what the device of disk d answers
WritePartitionsToDisk(ds, io) ==
    [d \in 1..Len(ds) |->
        IF ds[d].DiskStyle = "GPT" THEN ds[d]
        ELSE IF ds[d].Dirty THEN WritePartitions(ds[d], io[d])
        ELSE ds[d]]

\* a WritePartitionsToDisk that gives up at the first disk whose write fails
RECURSIVE WritePartitionsToDiskCalls_Abort(_, _, _)
WritePartitionsToDiskCalls_Abort(ds, io, d) ==
    IF d > Len(ds) THEN <<>>
    ELSE IF ds[d].DiskStyle = "GPT" THEN WritePartitionsToDiskCalls_Abort(ds, io, d + 1)
    ELSE IF ds[d].Dirty
    THEN [k \in 1..Len(WritePartitionsCalls(ds[d], io[d])) |->
              <<d, WritePartitionsCalls(ds[d], io[d])[k]>>]
         \o (IF WritePartitionsStatus(ds[d], io[d]) = "STATUS_SUCCESS"
             THEN WritePartitionsToDiskCalls_Abort(ds, io, d + 1)
             ELSE <<>>)
    ELSE WritePartitionsToDiskCalls_Abort(ds, io, d + 1)

\* the device calls of WritePartitionsToDisk(List) from disk d on, in the
\* order they are made, each with the disk it is made on
RECURSIVE WritePartitionsToDiskCalls(_, _, _)
WritePartitionsToDiskCalls(ds, io, d) ==
    IF d > Len(ds) THEN <<>>
    ELSE IF ds[d].DiskStyle = "GPT" THEN WritePartitionsToDiskCalls(ds, io, d + 1)
    ELSE IF ds[d].Dirty
    THEN [k \in 1..Len(WritePartitionsCalls(ds[d], io[d])) |->
              <<d, WritePartitionsCalls(ds[d], io[d])[k]>>]
         \o WritePartitionsToDiskCalls(ds, io, d + 1)
    ELSE WritePartitionsToDiskCalls(ds, io, d + 1)

(***************************************************************************)
(* CreatePartitionList                                                     *)
(***************************************************************************)
RECURSIVE AddDisksToList(_, _, _)
AddDisksToList(ds, raws, k) ==
    IF k > Len(raws) THEN ds
    ELSE AddDisksToList(AddDiskToList(ds, raws[k]), raws, k + 1)

\* the disk list CreatePartitionList builds from the devices raws
ScannedDisks(raws) ==
    AssignDriveLetters(UpdateDiskSignatures(AddDisksToList(<<>>, raws, 1)))

\* List->SystemPartition as CreatePartitionList leaves it
ScannedSystemPartition(ds) ==
    LET SystemDisk == GetSystemDisk(ds, NULL, 0)
        k == IF SystemDisk = 0 THEN 0 ELSE GetActiveDiskPartition(ds[SystemDisk])
    IN  IF k = 0 THEN NULL ELSE ds[SystemDisk].PrimaryPartList[k].id

(***************************************************************************)
(* Devices the list is built from                                          *)
(***************************************************************************)
\* a PARTITION_INFORMATION as IOCTL_DISK_GET_DRIVE_LAYOUT reports it
RawSlot(StartSector, SectorCount, PartitionType, BootIndicator, PartitionNumber) ==
    [ZeroSlot EXCEPT !.StartingOffset = StartSector * 512,
                     !.PartitionLength = SectorCount * 512,
                     !.HiddenSectors = StartSector,
                     !.PartitionNumber = PartitionNumber,
                     !.PartitionType = PartitionType,
                     !.BootIndicator = BootIndicator,
                     !.RecognizedPartition = IsRecognizedPartition(PartitionType)]

\* what a volume answers to MountVolume
VolFat == [openOk |-> TRUE, fs |-> "FAT", label |-> "SYS", reopenOk |-> TRUE]
VolRaw == [openOk |-> TRUE, fs |-> "RAW", label |-> "", reopenOk |-> TRUE]

\* a fixed disk of Cylinders tracks of 63 sectors of 512 bytes
RawDisk(DiskNumber, Magic, MbrType, Cylinders, PartitionCount, PartitionEntry) ==
    [DiskNumber |-> DiskNumber, MediaType |-> "FixedMedia", BiosMatch |-> TRUE,
     Magic |-> Magic, MbrType |-> MbrType,
     Cylinders |-> Cylinders, TracksPerCylinder |-> 1,
     SectorsPerTrack |-> 63, BytesPerSector |-> 512,
     Layout |-> [PartitionCount |-> PartitionCount, Signature |-> 0,
                 PartitionEntry |-> PartitionEntry],
     Vol |-> [i \in 1..Len(PartitionEntry) |->
                 IF i = 1 THEN VolFat ELSE VolRaw]]

\* a disk without partition table: 2268 sectors
FreshDisk(DiskNumber) ==
    RawDisk(DiskNumber, 0, <<0, 0, 0, 0>>, 36, 0, [i \in 1..4 |-> ZeroSlot])

\* a GPT disk: protective MBR
GptDisk(DiskNumber) ==
    RawDisk(DiskNumber, PARTITION_MAGIC, <<EFI_PMBR_OSTYPE_EFI, 0, 0, 0>>, 36, 1,
            [i \in 1..4 |->
                IF i = 1 THEN RawSlot(1, 2267, EFI_PMBR_OSTYPE_EFI, FALSE, 1)
                ELSE ZeroSlot])

\* an MBR disk of 5040 sectors: an active FAT16 primary that does not end
\* on a track boundary, a primary of a type that is not recognized, and an
\* extended partition with two logical drives
MbrDisk(DiskNumber) ==
    RawDisk(DiskNumber, PARTITION_MAGIC,
            <<PARTITION_FAT_16, 131, PARTITION_EXTENDED, 0>>, 80, 12,
            [i \in 1..12 |->
                IF i = 1 THEN RawSlot(2048, 500, PARTITION_FAT_16, TRUE, 1)
                ELSE IF i = 2 THEN RawSlot(2583, 504, 131, FALSE, 2)
                ELSE IF i = 3 THEN RawSlot(3087, 1890, PARTITION_EXTENDED, FALSE, 0)
                ELSE IF i = 5 THEN RawSlot(3150, 500, PARTITION_IFS, FALSE, 3)
                ELSE IF i = 6 THEN RawSlot(3780, 693, PARTITION_EXTENDED, FALSE, 0)
                ELSE IF i = 9 THEN RawSlot(3843, 630, PARTITION_FAT_12, FALSE, 4)
                ELSE ZeroSlot])

\* a super-floppy of 2268 sectors: no partition table, the driver reports
\* one FAT16 partition that starts at sector 0 and spans the disk
SuperFloppyDisk(DiskNumber) ==
    RawDisk(DiskNumber, PARTITION_MAGIC, <<0, 0, 0, 0>>, 36, 1,
            [i \in 1..4 |->
                IF i = 1 THEN RawSlot(0, 2268, PARTITION_FAT_16, FALSE, 0)
                ELSE ZeroSlot])

\* an MBR disk packed with drives: two primaries and an extended partition
\* of n logical drives of one track each, with one free track pair left
PackedDisk(DiskNumber, n) ==
    RawDisk(DiskNumber, PARTITION_MAGIC,
            <<PARTITION_FAT_16, 131, PARTITION_EXTENDED, 0>>,
            49 + 2 * (n + 1) + 1, 4 + 4 * n,
            [i \in 1..(4 + 4 * n) |->
                IF i = 1 THEN RawSlot(2048, 500, PARTITION_FAT_16, TRUE, 1)
                ELSE IF i = 2 THEN RawSlot(2583, 504, 131, FALSE, 2)
                ELSE IF i = 3
                THEN RawSlot(3087, 126 * (n + 1), PARTITION_EXTENDED, FALSE, 0)
                ELSE IF i > 4 /\ i % 4 = 1
                THEN RawSlot(3087 + 126 * ((i - 5) \div 4) + 63, 63,
                             PARTITION_FAT_12, FALSE, 3 + ((i - 5) \div 4))
                ELSE IF i > 4 /\ i % 4 = 2 /\ i + 3 <= 4 + 4 * n
                THEN RawSlot(3087 + 126 * ((i - 2) \div 4), 126,
                             PARTITION_EXTENDED, FALSE, 0)
                ELSE ZeroSlot])

\* the machines the list is built on: the devices in DiskNumber order
\* a machine with two MBR disks and a GPT disk between them
WriteDevices == << <<MbrDisk(0), GptDisk(1), MbrDisk(2)>> >>

Devices ==
    << <<FreshDisk(0), GptDisk(1)>>,
       <<MbrDisk(0)>>,
       <<SuperFloppyDisk(0)>> >>

PackedDevices ==
    << <<PackedDisk(0, NumLogicals)>>,
       <<PackedDisk(0, NumLogicals + 1)>> >>

(***************************************************************************)
(* State machine                                                           *)
(***************************************************************************)
\* what the scan of a disk builds from the layout buffer of DiskEntry: the
\* device answers IOCTL_DISK_GET_DRIVE_LAYOUT with that buffer and keeps the
\* geometry of the disk
Reparsed(DiskEntry) ==
    AddDiskToList(<<>>,
        [DiskNumber |-> DiskEntry.DiskNumber,
         MediaType |-> DiskEntry.MediaType,
         BiosMatch |-> DiskEntry.BiosFound,
         Magic |-> PARTITION_MAGIC,
         MbrType |-> [i \in 1..4 |->
                        DiskEntry.LayoutBuffer.PartitionEntry[i].PartitionType],
         Cylinders |-> DiskEntry.SectorCount \div DiskEntry.SectorsPerTrack,
         TracksPerCylinder |-> 1,
         SectorsPerTrack |-> DiskEntry.SectorsPerTrack,
         BytesPerSector |-> DiskEntry.BytesPerSector,
         Layout |-> [PartitionCount |-> DiskEntry.LayoutBuffer.PartitionCount,
                     Signature |-> DiskEntry.LayoutBuffer.Signature,
                     PartitionEntry |-> DiskEntry.LayoutBuffer.PartitionEntry],
         Vol |-> [i \in DOMAIN DiskEntry.LayoutBuffer.PartitionEntry |-> VolRaw]])[1]

\* start, count, is-partitioned and logical flag of every region, per list
Topology(ds) ==
    [d \in 1..Len(ds) |->
        [l \in BOOLEAN |->
            [k \in 1..Len(PartList(ds[d], l)) |->
                LET r == PartList(ds[d], l)[k]
                IN  <<r.StartSector, r.SectorCount, r.IsPartitioned,
                      r.LogicalPartition>>]]]

NoOp == [op |-> "none", ok |-> TRUE, why |-> "", d |-> 0, Logical |-> FALSE,
         idx |-> 0, whole |-> FALSE, merged |-> 0, free |-> NULL,
         container |-> FALSE, dismounted |-> {}, calls |-> <<>>,
         hint |-> <<1, FALSE, 0>>, handles |-> <<>>,
         BiosDiskList |-> <<>>]

\* what an operation leaves in lastOp: the call, what it returned and, when
\* it returned TRUE, the region it was called on; whole tells a request for
\* all the space of the region, merged how many unpartitioned neighbours
\* the deleted region had, free the region DeletePartition handed back,
\* container whether the deleted region was the extended partition of its
\* disk, dismounted the regions DismountVolume was called on, calls the
\* device calls of WritePartitions, hint the OldActivePart a caller of
\* SetActivePartition passed, handles the calls made on a device handle
\* from the NtOpenFile that returned it to the NtClose that released it
Called(op, r, p, whole, merged) ==
    IF r.ok
    THEN [op |-> op, ok |-> TRUE, why |-> "", d |-> p[1], Logical |-> p[2],
          idx |-> p[3], whole |-> whole, merged |-> merged, free |-> NULL,
          container |-> FALSE, dismounted |-> {}, calls |-> <<>>,
          hint |-> <<1, FALSE, 0>>, handles |-> <<>>,
         BiosDiskList |-> <<>>]
    ELSE [NoOp EXCEPT !.op = op, !.ok = FALSE, !.why = r.why]

\* sizes a caller asks for: all the space, less than a sector, 10 and 70
\* sectors, and the byte size of the region itself.  A call on NULL or on a
\* partitioned region returns before it looks at the size
Sizes(ds, d, Logical, idx) ==
    IF idx = 0 THEN {0}
    ELSE IF RegionAt(ds, d, Logical, idx).IsPartitioned THEN {0}
    ELSE {0, 100, 5120, 35840,
          GetPartEntrySizeInBytes(ds[d], RegionAt(ds, d, Logical, idx))}

\* the PARTENTRY pointers a caller can pass: every linked region, and NULL
\* (position 0)
Pointers(ds) ==
    {<<1, FALSE, 0>>}
      \cup UNION {{<<d, l, k>> : k \in 1..Len(PartList(ds[d], l))} :
                    d \in 1..Len(ds), l \in BOOLEAN}

\* the outcomes of the allocations of one call on the region p; the heap
\* can hand out the block of a freed PARTENTRY again only when there is one,
\* and a call on NULL or on a partitioned region allocates nothing
HeapOutcomes(ds, sp, p) ==
    IF p[3] = 0 \/ RegionAt(ds, p[1], p[2], p[3]).IsPartitioned
    THEN {[split |-> TRUE, logical |-> TRUE, layout |-> TRUE, reuse |-> FALSE]}
    ELSE [split : BOOLEAN, logical : BOOLEAN, layout : BOOLEAN,
          reuse : IF IsDangling(ds, sp) THEN BOOLEAN ELSE {FALSE}]

IoOutcomes ==
    {[openOk |-> TRUE, ioctlOk |-> TRUE],
     [openOk |-> TRUE, ioctlOk |-> FALSE],
     [openOk |-> FALSE, ioctlOk |-> FALSE]}

\* CreatePartitionList on one of the machines devs; ops calls follow
InitOn(devs, ops) ==
    /\ \E c \in 1..Len(devs) : disks = ScannedDisks(devs[c])
    /\ SystemPartition = ScannedSystemPartition(disks)
    /\ lastOp = NoOp
    /\ pre = <<>>
    /\ budget = ops
    /\ SwitcherIdle

InitWrite == InitOn(WriteDevices, MaxWriteOps)

InitActive == InitOn(WriteDevices, MaxActiveOps)

Init == InitOn(Devices, MaxOps) \/ InitOn(PackedDevices, MaxLetterOps)

IsWholeRequest(ds, p, SizeBytes) ==
    /\ p[3] # 0
    /\ \/ SizeBytes = 0
       \/ SizeBytes = GetPartEntrySizeInBytes(ds[p[1]], RegionAt(ds, p[1], p[2], p[3]))

\* a run is a bounded number of calls
Spend ==
    /\ budget > 0
    /\ budget' = budget - 1
    /\ UNCHANGED <<ulCurrentLayoutNum, Preload>>

\* how many of the two neighbours of the region p are unpartitioned
FreeNeighbours(ds, p) ==
    IF p[3] = 0 THEN 0
    ELSE Cardinality({Direction \in BOOLEAN :
             GetAdjUnpartitionedEntry(PartList(ds[p[1]], p[2]), p[3], Direction) # 0})

\* whether a pointer designates the extended partition of its disk
IsExtended(ds, p) ==
    /\ p[3] # 0
    /\ ds[p[1]].ExtendedPartition = RegionAt(ds, p[1], p[2], p[3]).id

\* the call deletes the partition the call before it has created
DeletesCreated(p) ==
    /\ lastOp.op = "create" /\ lastOp.ok
    /\ p = <<lastOp.d, lastOp.Logical, lastOp.idx>>

DoCreatePartition ==
    /\ Spend
    /\ \E p \in Pointers(disks) :
      \E SizeBytes \in Sizes(disks, p[1], p[2], p[3]) :
        \E heap \in {h \in HeapOutcomes(disks, SystemPartition, p) : h.logical} :
          LET r == CreatePartition(disks, SystemPartition, p[1], p[2], p[3],
                                   SizeBytes, heap)
          IN  /\ disks' = r.disks
              /\ SystemPartition' = SystemPartition
              /\ lastOp' = Called("create", r, p,
                                  IsWholeRequest(disks, p, SizeBytes), 0)
              /\ pre' = IF r.ok THEN Topology(disks) ELSE <<>>

DoCreateExtendedPartition ==
    /\ Spend
    /\ \E p \in Pointers(disks) :
      \E SizeBytes \in Sizes(disks, p[1], p[2], p[3]) :
        \E heap \in HeapOutcomes(disks, SystemPartition, p) :
          LET r == CreateExtendedPartition(disks, SystemPartition, p[1], p[2], p[3],
                                           SizeBytes, heap)
          IN  /\ disks' = r.disks
              /\ SystemPartition' = SystemPartition
              /\ lastOp' = Called("create_extended", r, p,
                                  IsWholeRequest(disks, p, SizeBytes), 0)
              /\ pre' = IF r.ok THEN Topology(disks) ELSE <<>>

DoDeletePartition ==
    /\ Spend
    /\ \E p \in Pointers(disks) :
      \E openOk \in BOOLEAN, allocOk \in BOOLEAN :
        LET r == DeletePartition(disks, SystemPartition, p[1], p[2], p[3],
                                 openOk, allocOk)
        IN  /\ disks' = r.disks
            /\ SystemPartition' = r.sp
            /\ lastOp' = [Called("delete", r, p, FALSE, FreeNeighbours(disks, p))
                             EXCEPT !.free = r.FreeRegion,
                                    !.container = r.ok /\ IsExtended(disks, p),
                                    !.dismounted = r.Dismounted]
            /\ pre' = IF r.ok /\ DeletesCreated(p) THEN pre ELSE <<>>

DoSetActivePartition ==
    /\ Spend
    /\ \E p \in Pointers(disks) :
      \E freed \in (IF IsDangling(disks, SystemPartition)
                    THEN 0..Len(disks) ELSE {0}) :
        LET r == SetActivePartition(disks, SystemPartition, p[1], p[2], p[3], freed)
        IN  /\ disks' = r.disks
            /\ SystemPartition' = r.sp
            /\ lastOp' = Called("set_active", r, p, FALSE, 0)
            /\ pre' = <<>>

\* SetActivePartition called with any region, or NULL, as OldActivePart
DoSetActivePartitionHinted ==
    /\ Spend
    /\ \E p \in Pointers(disks), h \in Pointers(disks) :
      \E freed \in (IF IsDangling(disks, SystemPartition)
                    THEN 0..Len(disks) ELSE {0}) :
        LET r == SetActivePartitionHinted(disks, SystemPartition, p, h, freed)
        IN  /\ disks' = r.disks
            /\ SystemPartition' = r.sp
            /\ lastOp' = [Called("set_active_hinted", r, p, FALSE, 0) EXCEPT
                             !.hint = h]
            /\ pre' = <<>>

DoWritePartitionsToDisk ==
    /\ Spend
    /\ \E io \in [1..Len(disks) -> IoOutcomes] :
        /\ disks' = WritePartitionsToDisk(disks, io)
        /\ SystemPartition' = SystemPartition
        /\ lastOp' = [NoOp EXCEPT
                         !.op = "write",
                         !.calls = WritePartitionsToDiskCalls(disks, io, 1)]
        /\ pre' = IF lastOp.op = "write" THEN lastOp.calls ELSE <<>>

\* WritePartitions(DiskEntry) called on one disk of the list
DoWritePartitions ==
    /\ Spend
    /\ \E d \in 1..Len(disks), io \in IoOutcomes :
        /\ disks' = [disks EXCEPT ![d] = WritePartitions(disks[d], io)]
        /\ SystemPartition' = SystemPartition
        /\ lastOp' = [NoOp EXCEPT
                         !.op = "write_partitions",
                         !.ok = WritePartitionsStatus(disks[d], io) = "STATUS_SUCCESS",
                         !.why = WritePartitionsStatus(disks[d], io),
                         !.d = d,
                         !.calls = WritePartitionsCalls(disks[d], io),
                         !.handles = WritePartitionsHandles(disks[d], io)]
        /\ pre' = [k \in 1..Len(disks) |->
                      [l \in BOOLEAN |-> PartList(disks[k], l)]]

Next ==
    \/ DoCreatePartition
    \/ DoCreateExtendedPartition
    \/ DoDeletePartition
    \/ DoSetActivePartition
    \/ DoWritePartitionsToDisk
    \/ DoWritePartitions

Spec == Init /\ [][Next]_vars

(***************************************************************************)
(* Properties                                                              *)
(***************************************************************************)
\* the lists of every disk
Lists == {<<d, l>> : d \in 1..Len(disks), l \in BOOLEAN}

ListOf(dl) == PartList(disks[dl[1]], dl[2])

\* last sector of a region as a number (not wrapped)
LastSector(r) == r.StartSector + r.SectorCount - 1

\* C1: every primary and every logical list is sorted by ascending start
\* sector, and no two regions A, B of a list overlap:
\* max(A.start, B.start) > min(A.end, B.end)
C1_SortedNonOverlapping ==
    \A dl \in Lists :
        \A i, j \in 1..Len(ListOf(dl)) :
            i < j =>
                /\ ListOf(dl)[i].StartSector <= ListOf(dl)[j].StartSector
                /\ Max(ListOf(dl)[i].StartSector, ListOf(dl)[j].StartSector)
                     > Min(LastSector(ListOf(dl)[i]), LastSector(ListOf(dl)[j]))

\* the container regions of the primary list of a disk
Containers(DiskEntry) ==
    {k \in 1..Len(DiskEntry.PrimaryPartList) :
        /\ DiskEntry.PrimaryPartList[k].IsPartitioned
        /\ IsContainerPartition(DiskEntry.PrimaryPartList[k].PartitionType)}

\* region r lies inside the sector range [start, start + count) of region c
Covers(c, r) ==
    /\ c.StartSector <= r.StartSector
    /\ r.StartSector + r.SectorCount <= c.StartSector + c.SectorCount

\* C2: a disk has at most one extended container, and the sector range of
\* the container covers every region of the logical list of the disk
C2_OneContainerCoversLogicals ==
    \A d \in 1..Len(disks) :
        /\ Cardinality(Containers(disks[d])) <= 1
        /\ \A k \in 1..Len(disks[d].LogicalPartList) :
              /\ Containers(disks[d]) # {}
              /\ \A c \in Containers(disks[d]) :
                    Covers(disks[d].PrimaryPartList[c], disks[d].LogicalPartList[k])

\* C3: no two adjacent regions of a list are both unpartitioned
C3_NoAdjacentFree ==
    \A dl \in Lists :
        \A k \in 1..(Len(ListOf(dl)) - 1) :
            ListOf(dl)[k].IsPartitioned \/ ListOf(dl)[k + 1].IsPartitioned

\* a partition between two unpartitioned regions has been deleted, and what
\* is left at its place is one unpartitioned region
C3_MergedBothSides ==
    /\ lastOp.op = "delete" /\ lastOp.ok /\ lastOp.merged = 2
    /\ ~RegionAt(disks, lastOp.d, lastOp.Logical, lastOp.idx - 1).IsPartitioned


\* C4: the primary list of an MBR disk holds at most four partitioned
\* regions
C4_AtMostFourPrimaries ==
    \A d \in 1..Len(disks) :
        disks[d].DiskStyle = "MBR" => GetPrimaryPartitionCount(disks[d]) <= 4

\* a partition has been refused for a full partition table: every disk is an
\* MBR disk with four primary partitions, so that no other check of
\* PartitionCreationChecks refuses
C4_TableFullRefused ==
    /\ lastOp.op = "create" /\ ~lastOp.ok /\ lastOp.why = "checks"
    /\ \A d \in 1..Len(disks) :
          /\ disks[d].DiskStyle = "MBR"
          /\ ~IsSuperFloppy(disks[d])
          /\ GetPrimaryPartitionCount(disks[d]) = 4

\* the positions of all regions of all disks
Positions == UNION {{<<dl, k>> : k \in 1..Len(ListOf(dl))} : dl \in Lists}

DriveLetterAt(p) == ListOf(p[1])[p[2]].Volume.DriveLetter

\* C5: the drive letters of the regions of all disks are pairwise distinct,
\* and every assigned (non-zero) letter lies in 'C'..'Z'
C5_DriveLettersDistinctInRange ==
    \A p \in Positions :
        DriveLetterAt(p) # 0 =>
            /\ DriveLetterAt(p) >= LETTER_C
            /\ DriveLetterAt(p) <= LETTER_Z
            /\ \A q \in Positions :
                  q # p => DriveLetterAt(q) # DriveLetterAt(p)

\* a partition has been created when the letters were used up: 'Z' is
\* assigned, and a partition that takes a letter is left without one
C5_LettersExhausted ==
    /\ lastOp.op = "create" /\ lastOp.ok
    /\ \E p \in Positions : DriveLetterAt(p) = LETTER_Z
    /\ \E p \in Positions :
          /\ DriveLetterAt(p) = 0
          /\ ListOf(p[1])[p[2]].IsPartitioned
          /\ p[1][2]
          /\ ListOf(p[1])[p[2]].SectorCount # 0

\* the regions the lists of the disks link
Linked(id) == {p \in Positions : ListOf(p[1])[p[2]].id = id}

\* C6: the system partition reference is NULL, or refers to a region that
\* is present in a list of a disk of the list and is partitioned
C6_SystemPartitionValid ==
    \/ SystemPartition = NULL
    \/ \E p \in Linked(SystemPartition) : ListOf(p[1])[p[2]].IsPartitioned


\* the disks classified as GPT
GptDisks == {d \in 1..Len(disks) : disks[d].DiskStyle = "GPT"}

\* C7: a GPT disk is never changed: CreatePartition,
\* CreateExtendedPartition, DeletePartition and WritePartitionsToDisk leave
\* the lists, the layout buffer, the dirty flag and the style of every GPT
\* disk as they are, and so do UpdateDiskLayout, UpdateDiskSignatures and
\* WritePartitionsToDisk applied to it under every outcome of the
\* environment
C7_GptDiskUntouched ==
    [][\A d \in GptDisks :
          /\ lastOp'.op \in {"create", "create_extended", "delete", "write"}
               => (Len(disks') = Len(disks) /\ disks'[d] = disks[d])
          /\ \A allocOk \in BOOLEAN : UpdateDiskLayout(disks[d], allocOk) = disks[d]
          /\ UpdateDiskSignatures(disks)[d] = disks[d]
          /\ \A io \in [1..Len(disks) -> IoOutcomes] :
                WritePartitionsToDisk(disks, io)[d] = disks[d]]_vars

\* a partition has been created on a disk next to a GPT disk, and the other
\* disk waits to be written
C7_EditedNextToGpt ==
    /\ GptDisks # {}
    /\ lastOp.op = "create" /\ lastOp.ok
    /\ lastOp.d \notin GptDisks
    /\ disks[lastOp.d].Dirty

\* C8: when CreatePartition, CreateExtendedPartition or DeletePartition
\* returns FALSE, the disks (lists, regions, layout buffers, dirty flags,
\* drive letters) and the system partition reference are unchanged
C8_FailureChangesNothing ==
    [][(lastOp'.op \in {"create", "create_extended", "delete"} /\ ~lastOp'.ok)
          => (disks' = disks /\ SystemPartition' = SystemPartition)]_vars

\* a creation has failed for a size below one sector on a disk that has
\* been edited before
C8_TooSmallRefused ==
    /\ lastOp.op \in {"create", "create_extended"}
    /\ ~lastOp.ok /\ lastOp.why = "too_small"
    /\ \E d \in 1..Len(disks) : disks[d].Dirty

\* C9: a CreatePartition with size 0 or with the byte size of the region
\* consumes the whole region: the partition keeps the start and the sector
\* count of the region, and no region is added to the list
C9_WholeRegionConsumed ==
    (lastOp.op = "create" /\ lastOp.ok /\ lastOp.whole) =>
        LET now == Topology(disks)[lastOp.d][lastOp.Logical]
            was == pre[lastOp.d][lastOp.Logical]
        IN  /\ Len(now) = Len(was)
            /\ now[lastOp.idx][1] = was[lastOp.idx][1]
            /\ now[lastOp.idx][2] = was[lastOp.idx][2]
            /\ now[lastOp.idx][3]

\* C10: a CreatePartition that succeeds, followed at once by the
\* DeletePartition of the created partition, restores the topology the
\* disk had before: the same (start sector, sector count, is partitioned,
\* logical) in both lists
C10_CreateDeleteRestores ==
    (lastOp.op = "delete" /\ lastOp.ok /\ pre # <<>>) =>
        Topology(disks)[lastOp.d] = pre[lastOp.d]

\* a partition that was split off a larger region has been deleted again
\* and merged with the remaining space
C10_SplitThenDeleted ==
    /\ lastOp.op = "delete" /\ lastOp.ok /\ pre # <<>>
    /\ lastOp.merged = 1
    /\ Len(Topology(disks)[lastOp.d][lastOp.Logical]) > 0

\* what identifies a region and places it: the block, the extent, the flags
\* and the type
Geometry(r) ==
    <<r.id, r.StartSector, r.SectorCount, r.IsPartitioned, r.LogicalPartition,
      r.PartitionType>>

\* list t is list s without the n regions that follow position i: the
\* regions before position i and after the removed ones keep their geometry
SameExceptAt(s, t, i, n) ==
    /\ Len(t) = Len(s) - n
    /\ \A k \in 1..Len(t) :
          k # i => Geometry(t[k]) = Geometry(s[IF k < i THEN k ELSE k + n])

\* the free region left at position i of list t: the block blk, at start
\* with count sectors
FreeAt(t, i, blk, start, count) ==
    /\ t[i].id = blk
    /\ ~t[i].IsPartitioned
    /\ t[i].StartSector = start
    /\ t[i].SectorCount = count

\* the merge table for the region at position i of list s, with t the list
\* after the call and free the region handed back
MergeTable(s, t, i, free) ==
    LET prevFree == i > 1 /\ ~s[i - 1].IsPartitioned
        nextFree == i < Len(s) /\ ~s[i + 1].IsPartitioned
    IN  IF prevFree /\ nextFree
        THEN /\ SameExceptAt(s, t, i - 1, 2)
             /\ FreeAt(t, i - 1, s[i - 1].id, s[i - 1].StartSector,
                       U64(s[i - 1].SectorCount + s[i].SectorCount
                             + s[i + 1].SectorCount))
             /\ free = s[i - 1].id
        ELSE IF prevFree
        THEN /\ SameExceptAt(s, t, i - 1, 1)
             /\ FreeAt(t, i - 1, s[i - 1].id, s[i - 1].StartSector,
                       U64(s[i - 1].SectorCount + s[i].SectorCount))
             /\ free = s[i - 1].id
        ELSE IF nextFree
        THEN /\ SameExceptAt(s, t, i, 1)
             /\ FreeAt(t, i, s[i + 1].id, s[i].StartSector,
                       U64(s[i + 1].SectorCount + s[i].SectorCount))
             /\ free = s[i + 1].id
        ELSE /\ SameExceptAt(s, t, i, 0)
             /\ FreeAt(t, i, s[i].id, s[i].StartSector, s[i].SectorCount)
             /\ t[i].PartitionType = PARTITION_ENTRY_UNUSED
             /\ t[i].Volume = ZeroVolume
             /\ ~t[i].BootIndicator
             /\ free = s[i].id

\* the lists other than list l of disk d keep the geometry of their regions
OtherListsKept(d, l) ==
    /\ Len(disks') = Len(disks)
    /\ \A dl \in Lists :
          dl # <<d, l>> =>
              SameExceptAt(PartList(disks[dl[1]], dl[2]),
                           PartList(disks'[dl[1]], dl[2]), 0, 0)

\* the step is a successful DeletePartition of a region that is not the
\* extended container of its disk
DeletesPlainPartition ==
    /\ lastOp'.op = "delete" /\ lastOp'.ok
    /\ disks[lastOp'.d].ExtendedPartition
         # RegionAt(disks, lastOp'.d, lastOp'.Logical, lastOp'.idx).id

DeletesContainer ==
    lastOp'.op = "delete" /\ lastOp'.ok /\ lastOp'.container

\* after the step disk d has no logical region and no extended container
ContainerGone(d) ==
    /\ disks'[d].LogicalPartList = <<>>
    /\ disks'[d].ExtendedPartition = NULL

\* after the step the region handed back is a free primary region of disk d
\* at start with count sectors
HandedBack(d, start, count) ==
    \E k \in DOMAIN disks'[d].PrimaryPartList :
        FreeAt(disks'[d].PrimaryPartList, k, lastOp'.free, start, count)

\* C12 as stated: DeletePartition of the extended container removes every
\* logical region and the container, leaves the logical list empty and the
\* extended-container pointer null, and hands back a free region that spans
\* from the former start to the former end of the container
C12_ContainerDeletedExactSpan ==
    [][DeletesContainer =>
          /\ ContainerGone(lastOp'.d)
          /\ HandedBack(lastOp'.d,
                        RegionAt(disks, lastOp'.d, FALSE, lastOp'.idx).StartSector,
                        RegionAt(disks, lastOp'.d, FALSE, lastOp'.idx).SectorCount)]_vars

\* C12: DeletePartition of the extended container removes every logical
\* region and the container, leaves the logical list empty and the
\* extended-container pointer null, and hands back the free region the merge
\* table gives for the container: it spans the former range of the container
\* together with the free primary regions next to it, and exactly that range
\* when the container has no free neighbour
C12_ContainerDeletedMerged ==
    [][DeletesContainer =>
          /\ ContainerGone(lastOp'.d)
          /\ MergeTable(disks[lastOp'.d].PrimaryPartList,
                        disks'[lastOp'.d].PrimaryPartList,
                        lastOp'.idx, lastOp'.free)
          /\ lastOp'.merged = 0 =>
                HandedBack(lastOp'.d,
                           RegionAt(disks, lastOp'.d, FALSE, lastOp'.idx).StartSector,
                           RegionAt(disks, lastOp'.d, FALSE, lastOp'.idx).SectorCount)]_vars

\* the extended container of a disk has been deleted next to a free region:
\* the disk has no logical region left and the region handed back is free
C12_ContainerDeleted ==
    /\ lastOp.op = "delete" /\ lastOp.ok /\ lastOp.container
    /\ lastOp.merged > 0
    /\ disks[lastOp.d].LogicalPartList = <<>>
    /\ disks[lastOp.d].ExtendedPartition = NULL
    /\ \E k \in DOMAIN disks[lastOp.d].PrimaryPartList :
          /\ disks[lastOp.d].PrimaryPartList[k].id = lastOp.free
          /\ ~disks[lastOp.d].PrimaryPartList[k].IsPartitioned

\* C13: when DeletePartition is applied to the extended container,
\* DismountVolume is invoked for every logical region whose volume is
\* mounted, before that region is freed
C13_LogicalVolumesDismounted ==
    [][DeletesContainer =>
          \A k \in DOMAIN disks[lastOp'.d].LogicalPartList :
              IsMountedPartition(disks[lastOp'.d].LogicalPartList[k]) =>
                  disks[lastOp'.d].LogicalPartList[k].id \in lastOp'.dismounted]_vars

\* how many regions of the primary list of a disk are partitioned
PartitionedPrimaries(DiskEntry) ==
    Cardinality({k \in DOMAIN DiskEntry.PrimaryPartList :
                    DiskEntry.PrimaryPartList[k].IsPartitioned})

\* what the decision table of the creation checks gives for the region at
\* position k of list l of disk d
CreationChecksTable(d, l, k) ==
    IF disks[d].DiskStyle = "GPT" THEN "ERROR_WARN_PARTITION"
    ELSE IF PartList(disks[d], l)[k].IsPartitioned THEN "ERROR_NEW_PARTITION"
    ELSE IF \/ IsSuperFloppy(disks[d])
            \/ (~l /\ PartitionedPrimaries(disks[d]) = 4)
    THEN "ERROR_PARTITION_TABLE_FULL"
    ELSE "ERROR_SUCCESS"

\* C14: PartitionCreationChecks returns ERROR_WARN_PARTITION when the disk of
\* the region is GPT; otherwise ERROR_NEW_PARTITION when the region is
\* partitioned; otherwise ERROR_PARTITION_TABLE_FULL when the disk is a
\* super-floppy or, for a region of the primary list, the primary list holds
\* four partitioned regions; otherwise ERROR_SUCCESS
C14_CreationChecksTable ==
    \A dl \in Lists :
        \A k \in DOMAIN ListOf(dl) :
            PartitionCreationChecks(disks[dl[1]], ListOf(dl)[k])
                = CreationChecksTable(dl[1], dl[2], k)

\* CreatePartition has been refused by the checks while a disk that is no
\* super-floppy holds four partitioned primary regions and a free one, and
\* the checks answer table full for that free region
C14_TableFullAnswered ==
    /\ lastOp.op = "create" /\ ~lastOp.ok /\ lastOp.why = "checks"
    /\ \E d \in DOMAIN disks :
          /\ ~IsSuperFloppy(disks[d])
          /\ \E k \in DOMAIN disks[d].PrimaryPartList :
                /\ ~disks[d].PrimaryPartList[k].IsPartitioned
                /\ PartitionCreationChecks(disks[d], disks[d].PrimaryPartList[k])
                      = "ERROR_PARTITION_TABLE_FULL"

\* the free regions of the disks that are not GPT and have an extended
\* container, as pairs of a list and a position
FreeNextToContainer ==
    {x \in Positions :
        /\ disks[x[1][1]].DiskStyle # "GPT"
        /\ disks[x[1][1]].ExtendedPartition # NULL
        /\ ~ListOf(x[1])[x[2]].IsPartitioned}

\* C15 as stated: ExtendedPartitionCreationChecks on a free region of a disk
\* that is not GPT and already has an extended container returns
\* ERROR_ONLY_ONE_EXTENDED, whatever the number of partitioned primaries
C15_OnlyOneExtendedAlways ==
    \A x \in FreeNextToContainer :
        ExtendedPartitionCreationChecks(disks[x[1][1]], ListOf(x[1])[x[2]])
            = "ERROR_ONLY_ONE_EXTENDED"

\* C15: ExtendedPartitionCreationChecks on a free region of a disk that is
\* not GPT and already has an extended container fails: with
\* ERROR_PARTITION_TABLE_FULL when the disk is a super-floppy or its primary
\* list holds four partitioned regions, with ERROR_ONLY_ONE_EXTENDED
\* otherwise
C15_OnlyOneExtendedUnlessFull ==
    \A x \in FreeNextToContainer :
        ExtendedPartitionCreationChecks(disks[x[1][1]], ListOf(x[1])[x[2]])
            = IF \/ IsSuperFloppy(disks[x[1][1]])
                 \/ PartitionedPrimaries(disks[x[1][1]]) >= 4
              THEN "ERROR_PARTITION_TABLE_FULL"
              ELSE "ERROR_ONLY_ONE_EXTENDED"

\* CreateExtendedPartition has been refused by the checks on a disk that
\* has an extended container, a free region and fewer than four partitioned
\* primary regions
C15_SecondContainerRefused ==
    /\ lastOp.op = "create_extended" /\ ~lastOp.ok /\ lastOp.why = "checks"
    /\ \E x \in FreeNextToContainer :
          /\ PartitionedPrimaries(disks[x[1][1]]) < 4
          /\ ExtendedPartitionCreationChecks(disks[x[1][1]], ListOf(x[1])[x[2]])
                = "ERROR_ONLY_ONE_EXTENDED"

\* the layout of disk d has exactly one entry, whose starting offset and
\* hidden-sector count are zero
SingleEntryAtZero(d) ==
    /\ ~disks[d].LayoutBuffer.IsNull
    /\ disks[d].LayoutBuffer.PartitionCount = 1
    /\ disks[d].LayoutBuffer.PartitionEntry[1].StartingOffset = 0
    /\ disks[d].LayoutBuffer.PartitionEntry[1].HiddenSectors = 0

\* the regions of the disks whose layout is that of a super-floppy
OnSuperFloppy == {x \in Positions : SingleEntryAtZero(x[1][1])}

\* C16 as stated: on a disk whose layout has exactly one entry with starting
\* offset and hidden-sector count zero IsSuperFloppy is true and
\* PartitionCreationChecks on a region of the disk returns
\* ERROR_PARTITION_TABLE_FULL
C16_SuperFloppyTableFull ==
    \A x \in OnSuperFloppy :
        /\ IsSuperFloppy(disks[x[1][1]])
        /\ PartitionCreationChecks(disks[x[1][1]], ListOf(x[1])[x[2]])
              = "ERROR_PARTITION_TABLE_FULL"

\* C16: on a disk whose layout has exactly one entry with starting offset
\* and hidden-sector count zero IsSuperFloppy is true and
\* PartitionCreationChecks returns ERROR_PARTITION_TABLE_FULL on a free region
\* of the disk and ERROR_NEW_PARTITION on a partitioned one, as the single
\* region is that the scan of such a disk builds
C16_SuperFloppyRefused ==
    \A x \in OnSuperFloppy :
        /\ IsSuperFloppy(disks[x[1][1]])
        /\ PartitionCreationChecks(disks[x[1][1]], ListOf(x[1])[x[2]])
              = IF ListOf(x[1])[x[2]].IsPartitioned
                THEN "ERROR_NEW_PARTITION"
                ELSE "ERROR_PARTITION_TABLE_FULL"

\* CreatePartition has been refused by the checks on the free region of a
\* super-floppy
C16_FreeRegionRefused ==
    /\ lastOp.op = "create" /\ ~lastOp.ok /\ lastOp.why = "checks"
    /\ \E x \in OnSuperFloppy : ~ListOf(x[1])[x[2]].IsPartitioned

\* a region that is to get a drive letter: partitioned, no container, and
\* of a recognized type or of a length that is not zero
EligibleForLetter(r) ==
    /\ r.IsPartitioned
    /\ ~IsContainerPartition(r.PartitionType)
    /\ (IsRecognizedPartition(r.PartitionType) \/ r.SectorCount # 0)

\* position x is reached before position y: the primary lists of all disks
\* come before the logical lists, then disk-list order, then list order
ReachedBefore(x, y) ==
    \/ ~x[1][2] /\ y[1][2]
    \/ /\ x[1][2] = y[1][2]
       /\ \/ x[1][1] < y[1][1]
          \/ x[1][1] = y[1][1] /\ x[2] < y[2]

\* how many eligible regions are reached before position y
EligibleBefore(y) ==
    Cardinality({x \in Positions :
                    EligibleForLetter(ListOf(x[1])[x[2]]) /\ ReachedBefore(x, y)})

RegionTopology(DiskEntry, l) ==
    [k \in DOMAIN PartList(DiskEntry, l) |->
        <<PartList(DiskEntry, l)[k].StartSector,
          PartList(DiskEntry, l)[k].SectorCount,
          PartList(DiskEntry, l)[k].IsPartitioned>>]

\* the last call was a successful CreatePartition, CreateExtendedPartition
\* or DeletePartition
Edited ==
    lastOp.ok /\ lastOp.op \in {"create", "create_extended", "delete"}

\* C18: in every state reached by CreatePartition, CreateExtendedPartition
\* and DeletePartition, writing the region lists into the layout buffer
\* with UpdateDiskLayout and scanning that buffer again (AddPartitionToDisk
\* for the entries 0..3 and 4, 8, 12, ..., then
\* ScanForUnpartitionedDiskSpace) gives the same sequence of start, sector
\* count and partitioned flag in the primary and in the logical list
C18_LayoutRoundTrip ==
    Edited =>
        \A l \in BOOLEAN :
            RegionTopology(Reparsed(UpdateDiskLayout(disks[lastOp.d], TRUE)), l)
                = RegionTopology(disks[lastOp.d], l)

\* the sum of the sector counts of the regions of a list, as a ULONGLONG
RECURSIVE SumOfSectorCounts(_)
SumOfSectorCounts(s) ==
    IF s = <<>> THEN 0
    ELSE U64(Head(s).SectorCount + SumOfSectorCounts(Tail(s)))

\* the span a list is to fill: for the primary list the disk from the start
\* of its first region on, for the logical list the extended container
UsableSpan(DiskEntry, l) ==
    IF ~l
    THEN IF DiskEntry.PrimaryPartList = <<>> THEN 0
         ELSE DiskEntry.SectorCount - DiskEntry.PrimaryPartList[1].StartSector
    ELSE IF DiskEntry.ExtendedPartition = NULL THEN 0
    ELSE ExtendedPartitionOf(DiskEntry).SectorCount

PartitionedRegions(DiskEntry) ==
    {r \in {PartList(DiskEntry, x[1])[x[2]] :
                 x \in {y \in BOOLEAN \X (1..(Len(DiskEntry.PrimaryPartList)
                                                + Len(DiskEntry.LogicalPartList))) :
                            y[2] <= Len(PartList(DiskEntry, y[1]))}} :
        r.IsPartitioned}

\* the New flag and the partition number of every region of a disk, per list
FlagsAndNumbers(DiskEntry) ==
    [l \in BOOLEAN |->
        [k \in DOMAIN PartList(DiskEntry, l) |->
            <<PartList(DiskEntry, l)[k].New,
              PartList(DiskEntry, l)[k].PartitionNumber>>]]

\* C20: WritePartitions on a disk that is not dirty calls nothing on the
\* device, returns STATUS_SUCCESS and leaves the disk as it was; when
\* IOCTL_DISK_SET_DRIVE_LAYOUT succeeds the disk is no longer dirty and every
\* partitioned region has New cleared and carries the partition number of the
\* layout entry at its PartitionIndex; when NtOpenFile or the IOCTL fails the
\* failure status is returned, the disk stays dirty and no region's New flag
\* or partition number changes
C20_WritePartitions ==
    [][lastOp'.op = "write_partitions" =>
          LET d      == lastOp'.d
              ioctl  == Len(lastOp'.calls) = 3
          IN  /\ ~disks[d].Dirty =>
                    /\ lastOp'.calls = <<>>
                    /\ lastOp'.why = "STATUS_SUCCESS"
                    /\ disks'[d] = disks[d]
              /\ disks[d].Dirty => lastOp'.calls # <<>>
              /\ (ioctl /\ lastOp'.ok) =>
                    /\ lastOp'.why = "STATUS_SUCCESS"
                    /\ ~disks'[d].Dirty
                    /\ \A r \in PartitionedRegions(disks'[d]) :
                          /\ ~r.New
                          /\ r.PartitionNumber
                                = GetLayoutEntry(disks'[d], r.PartitionIndex).PartitionNumber
              /\ (disks[d].Dirty /\ ~lastOp'.ok) =>
                    /\ lastOp'.why # "STATUS_SUCCESS"
                    /\ disks'[d].Dirty
                    /\ FlagsAndNumbers(disks'[d]) = FlagsAndNumbers(disks[d])
              /\ \A k \in DOMAIN disks : k # d => disks'[k] = disks[k]]_vars

\* WritePartitions has written a dirty disk: a partition that was new and
\* had no number now has New cleared and the number of its layout entry
C20_NewPartitionNumbered ==
    /\ lastOp.op = "write_partitions" /\ lastOp.ok /\ Len(lastOp.calls) = 3
    /\ \E l \in BOOLEAN :
        \E k \in DOMAIN PartList(disks[lastOp.d], l) :
            LET r == PartList(disks[lastOp.d], l)[k]
            IN  /\ pre[lastOp.d][l][k].New
                /\ pre[lastOp.d][l][k].PartitionNumber = 0
                /\ r.IsPartitioned /\ ~r.New /\ r.PartitionNumber # 0
                /\ r.PartitionNumber
                      = GetLayoutEntry(disks[lastOp.d], r.PartitionIndex).PartitionNumber

\* calls that mark disks active and write the list back
NextWrite ==
    \/ DoSetActivePartition
    \/ DoWritePartitionsToDisk
    \/ DoWritePartitions

SpecWrite == InitWrite /\ [][NextWrite]_vars

\* the non-GPT disks of the list that are dirty, in list order from disk d on
RECURSIVE DirtyDisksFrom(_, _)
DirtyDisksFrom(ds, d) ==
    IF d > Len(ds) THEN <<>>
    ELSE IF ds[d].DiskStyle # "GPT" /\ ds[d].Dirty
    THEN <<d>> \o DirtyDisksFrom(ds, d + 1)
    ELSE DirtyDisksFrom(ds, d + 1)

\* the disks a sequence of device calls makes the call c on, in call order
DisksCalled(calls, c) ==
    LET Made(x) == x[2] = c
    IN  [k \in DOMAIN SelectSeq(calls, Made) |-> SelectSeq(calls, Made)[k][1]]

\* C21: WritePartitionsToDisk opens the device of every dirty non-GPT disk
\* exactly once, in disk-list order, whatever the earlier disks answered, and
\* issues IOCTL_DISK_SET_DRIVE_LAYOUT only on disks that are dirty when it
\* is called, so a call that follows another one only reaches the disks the
\* first one left dirty
C21_EveryDirtyDiskAttempted ==
    [][lastOp'.op = "write" =>
          /\ DisksCalled(lastOp'.calls, "NtOpenFile") = DirtyDisksFrom(disks, 1)
          /\ \A k \in DOMAIN lastOp'.calls :
                /\ disks[lastOp'.calls[k][1]].Dirty
                /\ disks[lastOp'.calls[k][1]].DiskStyle # "GPT"
          /\ \A d \in DOMAIN disks :
                (disks[d].Dirty /\ ~disks'[d].Dirty) =>
                    <<d, "IOCTL_DISK_SET_DRIVE_LAYOUT">>
                        \in {lastOp'.calls[k] : k \in DOMAIN lastOp'.calls}]_vars

\* a first WritePartitionsToDisk failed to open the first disk and wrote the
\* last one; the call that followed it reached the first disk only
C21_RetryReachedFailedDisk ==
    /\ lastOp.op = "write"
    /\ pre = << <<1, "NtOpenFile">>, <<3, "NtOpenFile">>,
                <<3, "IOCTL_DISK_SET_DRIVE_LAYOUT">>, <<3, "NtClose">> >>
    /\ DisksCalled(lastOp.calls, "IOCTL_DISK_SET_DRIVE_LAYOUT") = <<1>>
    /\ ~disks[1].Dirty /\ ~disks[3].Dirty

\* the disks UpdateDiskSignatures has given a new signature that no call
\* has touched since: no call was made yet, the disk is not GPT and slot 0
\* of its layout buffer is marked for rewrite
NewlySigned ==
    {d \in DOMAIN disks :
        /\ lastOp = NoOp
        /\ disks[d].DiskStyle # "GPT"
        /\ ~disks[d].LayoutBuffer.IsNull
        /\ disks[d].LayoutBuffer.Signature # 0
        /\ disks[d].LayoutBuffer.PartitionEntry[1].RewritePartition}

WithSignature(raw, sig) == [raw EXCEPT !.Layout.Signature = sig]

\* CreatePartitionList has added the disks and calls UpdateDiskSignatures:
\* lastOp.d is the DiskEntry of its loop, lastOp.why is "SetDiskSignature"
\* inside the loop of SetDiskSignature, lastOp.calls the readings of the
\* clock so far, each with its disk, and pre the signatures as found
InitSig ==
    /\ \E a, b, c \in 0..MaxSig :
          disks = AddDisksToList(<<>>, <<WithSignature(MbrDisk(0), a),
                                        GptDisk(1),
                                        WithSignature(FreshDisk(2), b),
                                        WithSignature(SuperFloppyDisk(3), c)>>, 1)
    /\ SystemPartition = NULL
    /\ lastOp = [NoOp EXCEPT !.op = "UpdateDiskSignatures", !.d = 1, !.ok = FALSE]
    /\ pre = [d \in DOMAIN disks |-> disks[d].LayoutBuffer.Signature]
    /\ budget = MaxClockReads
    /\ SwitcherIdle

\* an iteration of the loop of UpdateDiskSignatures that leaves the disk as
\* it is: a GPT disk, a disk without layout buffer or with a signature
SkipDisk ==
    /\ lastOp.op = "UpdateDiskSignatures" /\ lastOp.why = ""
    /\ lastOp.d <= Len(disks)
    /\ \/ disks[lastOp.d].DiskStyle = "GPT"
       \/ disks[lastOp.d].LayoutBuffer.IsNull
       \/ disks[lastOp.d].LayoutBuffer.Signature # 0
    /\ lastOp' = [lastOp EXCEPT !.d = @ + 1, !.ok = lastOp.d + 1 > Len(disks)]
    /\ UNCHANGED <<disks, SystemPartition, pre, budget, ulCurrentLayoutNum, Preload>>

\* an iteration of the loop of SetDiskSignature: the clock is read, the
\* value is stored in the layout buffer and compared with the other disks;
\* when the loop ends UpdateDiskSignatures marks slot 0 and goes on
QuerySystemTime ==
    /\ lastOp.op = "UpdateDiskSignatures"
    /\ lastOp.d <= Len(disks)
    /\ disks[lastOp.d].DiskStyle # "GPT"
    /\ ~disks[lastOp.d].LayoutBuffer.IsNull
    /\ \/ lastOp.why = "" /\ disks[lastOp.d].LayoutBuffer.Signature = 0
       \/ lastOp.why = "SetDiskSignature"
    /\ Spend
    /\ \E sig \in 0..MaxSig :
          LET d   == lastOp.d
              ds1 == SetDiskSignature(disks, d, sig)
          IN  IF SignatureAccepted(ds1, d, sig)
              THEN /\ disks' = [ds1 EXCEPT
                                  ![d].LayoutBuffer.PartitionEntry[1].RewritePartition = TRUE]
                   /\ lastOp' = [lastOp EXCEPT !.d = d + 1, !.why = "",
                                               !.ok = d + 1 > Len(disks),
                                               !.calls = Append(@, <<d, sig>>)]
              ELSE /\ disks' = ds1
                   /\ lastOp' = [lastOp EXCEPT !.why = "SetDiskSignature",
                                               !.calls = Append(@, <<d, sig>>)]
    /\ UNCHANGED <<SystemPartition, pre>>

NextSig == SkipDisk \/ QuerySystemTime

SpecSig == InitSig /\ [][NextSig]_vars

\* UpdateDiskSignatures has returned
SignaturesUpdated == lastOp.op = "UpdateDiskSignatures" /\ lastOp.ok

\* C23: when UpdateDiskSignatures has returned, every non-GPT disk whose
\* signature was zero has a non-zero signature that no other non-GPT disk of
\* the list has, whatever values the clock produced, and slot 0 of its
\* layout buffer is marked for rewrite
C23_SignaturesUniqueAndMarked ==
    SignaturesUpdated =>
        \A d \in DOMAIN disks :
            (disks[d].DiskStyle # "GPT" /\ pre[d] = 0) =>
                /\ disks[d].LayoutBuffer.Signature # 0
                /\ \A k \in DOMAIN disks :
                      (k # d /\ disks[k].DiskStyle # "GPT") =>
                          disks[k].LayoutBuffer.Signature
                              # disks[d].LayoutBuffer.Signature
                /\ disks[d].LayoutBuffer.PartitionEntry[1].RewritePartition

\* two disks had no signature and the clock produced for the second the
\* value it had produced for the first: the second one was given another
C23_SameReadingRegenerated ==
    /\ SignaturesUpdated
    /\ pre[1] = 0 /\ pre[3] = 0
    /\ \E i, j \in DOMAIN lastOp.calls :
          /\ i < j
          /\ lastOp.calls[i][1] = 1 /\ lastOp.calls[j][1] = 3
          /\ lastOp.calls[i][2] = lastOp.calls[j][2]
          /\ lastOp.calls[i][2] = disks[1].LayoutBuffer.Signature
    /\ disks[3].LayoutBuffer.Signature # disks[1].LayoutBuffer.Signature

\* calls of SetActivePartition with every region and every hint
NextActive == DoSetActivePartitionHinted

SpecActive == InitActive /\ [][NextActive]_vars

\* the layout entry a region's PartitionIndex names
LayoutSlotOf(ds, p) ==
    GetLayoutEntry(ds[p[1]], RegionAt(ds, p[1], p[2], p[3]).PartitionIndex)

\* C24: a SetActivePartition that went past its early returns has cleared
\* the boot indicator of the partition that was active on the region's disk
\* (the hint when it is active and on that disk, else the one the scan of
\* the primary list finds), both in the PARTENTRY and in the layout entry
\* at its PartitionIndex, which is marked for rewrite; it has set the boot
\* indicator of the region and of the layout entry at its PartitionIndex,
\* marked for rewrite; and List->SystemPartition is the region exactly when
\* the region's disk is the system disk
C24_ActiveMoved ==
    [][(/\ lastOp'.op = "set_active_hinted" /\ lastOp'.ok
        /\ lastOp'.idx # 0
        /\ RegionAt(disks, lastOp'.d, lastOp'.Logical, lastOp'.idx).id # SystemPartition
        /\ ~(/\ lastOp'.hint = <<lastOp'.d, lastOp'.Logical, lastOp'.idx>>
             /\ IsPartitionActive(RegionAt(disks, lastOp'.d, lastOp'.Logical, lastOp'.idx))))
          =>
          LET p   == <<lastOp'.d, lastOp'.Logical, lastOp'.idx>>
              old == OldActivePartOf(disks, p, lastOp'.hint)
          IN  /\ (old[3] # 0 /\ old # p) =>
                    /\ ~RegionAt(disks', old[1], old[2], old[3]).BootIndicator
                    /\ ~LayoutSlotOf(disks', old).BootIndicator
                    /\ LayoutSlotOf(disks', old).RewritePartition
              /\ RegionAt(disks', p[1], p[2], p[3]).BootIndicator
              /\ LayoutSlotOf(disks', p).BootIndicator
              /\ LayoutSlotOf(disks', p).RewritePartition
              /\ (SystemPartition' = RegionAt(disks, p[1], p[2], p[3]).id)
                    <=> (p[1] = GetSystemDisk(disks, SystemPartition, 0))]_vars

(***************************************************************************)
(* IsSupportedActivePartition                                              *)
(***************************************************************************)
\* wcsicmp(a, b) == 0 on the file system names used here
SameNameIgnoringCase(a, b) ==
    LET Upper(s) == CASE s = "fat" -> "FAT"
                      [] s = "Btrfs" -> "BTRFS"
                      [] OTHER -> s
    IN  Upper(a) = Upper(b)

\* a predicate that also takes NTFS for a file system it can write
IsSupportedActivePartition_Ntfs(PartEntry) ==
    IF IsContainerPartition(PartEntry.PartitionType) THEN FALSE
    ELSE IF PartEntry.Volume.FormatState = "Unformatted" THEN TRUE
    ELSE IF PartEntry.Volume.FormatState = "Formatted"
    THEN \/ SameNameIgnoringCase(PartEntry.Volume.FileSystem, "FAT")
         \/ SameNameIgnoringCase(PartEntry.Volume.FileSystem, "FAT32")
         \/ SameNameIgnoringCase(PartEntry.Volume.FileSystem, "NTFS")
         \/ SameNameIgnoringCase(PartEntry.Volume.FileSystem, "BTRFS")
    ELSE FALSE

\* IsSupportedActivePartition(PartEntry): every branch of the test of
\* FormatState returns, so the test of PARTITION_IFS that follows it is
\* never reached
IsSupportedActivePartition(PartEntry) ==
    IF IsContainerPartition(PartEntry.PartitionType) THEN FALSE
    ELSE IF PartEntry.Volume.FormatState = "Unformatted" THEN TRUE
    ELSE IF PartEntry.Volume.FormatState = "Formatted"
    THEN \/ SameNameIgnoringCase(PartEntry.Volume.FileSystem, "FAT")
         \/ SameNameIgnoringCase(PartEntry.Volume.FileSystem, "FAT32")
         \/ SameNameIgnoringCase(PartEntry.Volume.FileSystem, "BTRFS")
    ELSE FALSE

\* the partition types, format states and file system names a PARTENTRY is
\* drawn from: a Formatted volume has a name, one of unknown format has none
SupportInputs ==
    {x \in [PartitionType : {PARTITION_ENTRY_UNUSED, PARTITION_FAT_12,
                             PARTITION_FAT_16, PARTITION_EXTENDED,
                             PARTITION_HUGE, PARTITION_IFS, PARTITION_FAT32,
                             PARTITION_FAT32_XINT13, PARTITION_XINT13,
                             PARTITION_XINT13_EXTENDED, 131},
            Volume : [FormatState : {"Unformatted", "UnformattedOrDamaged",
                                     "UnknownFormat", "Formatted"},
                      FileSystem : {"", "RAW", "FAT", "fat", "FAT32", "NTFS",
                                    "BTRFS", "Btrfs"}]] :
        /\ x.Volume.FormatState = "Formatted" => x.Volume.FileSystem \notin {"", "RAW"}
        /\ x.Volume.FormatState = "Unformatted" => x.Volume.FileSystem \in {"", "RAW"}
        /\ x.Volume.FormatState \in {"UnformattedOrDamaged", "UnknownFormat"}
              => x.Volume.FileSystem = ""}

\* pre is the PARTENTRY the predicate is about to be called on
InitSupported ==
    /\ disks = <<>>
    /\ SystemPartition = NULL
    /\ lastOp = NoOp
    /\ pre \in SupportInputs
    /\ budget = 1
    /\ SwitcherIdle

DoIsSupportedActivePartition ==
    /\ Spend
    /\ lastOp' = [NoOp EXCEPT !.op = "IsSupportedActivePartition",
                              !.ok = IsSupportedActivePartition(pre)]
    /\ UNCHANGED <<disks, SystemPartition, pre>>

NextSupported == DoIsSupportedActivePartition

SpecSupported == InitSupported /\ [][NextSupported]_vars

\* C25: IsSupportedActivePartition is TRUE exactly for a region that is not
\* a container, whose volume is Unformatted or is Formatted with the file
\* system FAT, FAT32 or BTRFS (compared without regard to case), and whose
\* partition type is not PARTITION_IFS
C25_SupportedIff ==
    lastOp.op = "IsSupportedActivePartition" =>
        (lastOp.ok <=>
            /\ ~IsContainerPartition(pre.PartitionType)
            /\ \/ pre.Volume.FormatState = "Unformatted"
               \/ /\ pre.Volume.FormatState = "Formatted"
                  /\ \E fs \in {"FAT", "FAT32", "BTRFS"} :
                        SameNameIgnoringCase(pre.Volume.FileSystem, fs)
            /\ pre.PartitionType # PARTITION_IFS)

(***************************************************************************)
(* FindSupportedSystemPartition                                            *)
(***************************************************************************)
\* the least element of a non-empty set of list positions, 0 for none
FirstOf(K) == IF K = {} THEN 0 ELSE CHOOSE k \in K : \A j \in K : k <= j

\* the PARTENTRY pointer with the given id, NULL (position 0) for NULL
PointerOfId(ds, id) ==
    IF id = NULL \/ IsDangling(ds, id) THEN <<1, FALSE, 0>>
    ELSE CHOOSE p \in Pointers(ds) :
            p[3] # 0 /\ RegionAt(ds, p[1], p[2], p[3]).id = id

\* what FindSupportedSystemPartition yields in place of a PARTENTRY pointer
\* when it reads a field through a NULL DISKENTRY or PARTENTRY pointer
NullDereference == <<0, FALSE, 0>>

\* "Step 2" of FindSupportedSystemPartition, from the label
\* UseAlternativeDisk on; DiskEntry is the system disk
UseAlternativeDisk(ds, DiskEntry, ForceSelect, AlternativeDisk, AlternativePart) ==
    LET s == ds[AlternativeDisk].PrimaryPartList
        a == GetActiveDiskPartition(ds[AlternativeDisk])
        Used == {k \in 1..Len(s) :
                    s[k].PartitionType # PARTITION_ENTRY_UNUSED \/ s[k].BootIndicator}
    IN  IF AlternativeDisk = 0 \/ (~ForceSelect /\ DiskEntry # AlternativeDisk)
        THEN <<1, FALSE, 0>>
        ELSE IF ds[AlternativeDisk].DiskStyle = "GPT" THEN <<1, FALSE, 0>>
        ELSE IF DiskEntry # AlternativeDisk /\ a # 0 /\ IsSupportedActivePartition(s[a])
        THEN <<AlternativeDisk, FALSE, a>>
        ELSE IF s = <<>> /\ ds[AlternativeDisk].NewDisk THEN NullDereference
        ELSE IF s = <<>> THEN <<1, FALSE, 0>>
        ELSE IF ds[AlternativeDisk].NewDisk
                  /\ (~s[1].IsPartitioned \/ ~s[1].BootIndicator)
        THEN <<AlternativeDisk, FALSE, 1>>
        ELSE IF Used = {} THEN <<AlternativeDisk, FALSE, 1>>
        ELSE AlternativePart

\* FindSupportedSystemPartition(List, ForceSelect, AlternativeDisk,
\* AlternativePart) on a list whose system partition, if any, is linked:
\* disk 0 and position 0 are NULL, the result is a PARTENTRY pointer
FindSupportedSystemPartition(ds, sp, ForceSelect, AlternativeDisk0, AlternativePart) ==
    LET AlternativeDisk == IF AlternativeDisk0 = 0 /\ AlternativePart[3] # 0
                           THEN AlternativePart[1] ELSE AlternativeDisk0
        DiskEntry == GetSystemDisk(ds, sp, 0)
        ActivePartition == PointerOfId(ds, sp)
        s == ds[DiskEntry].PrimaryPartList
        Supported == {k \in 1..Len(s) :
                        /\ s[k].id # sp
                        /\ s[k].IsPartitioned
                        /\ ~IsContainerPartition(s[k].PartitionType)
                        /\ IsSupportedActivePartition(s[k])}
        Unpartitioned == {k \in 1..Len(s) : s[k].id # sp /\ ~s[k].IsPartitioned}
    IN  IF ds = <<>> THEN <<1, FALSE, 0>>
        ELSE IF DiskEntry = 0 THEN NullDereference
        ELSE IF ds[DiskEntry].DiskStyle = "GPT"
        THEN UseAlternativeDisk(ds, DiskEntry, ForceSelect, AlternativeDisk, AlternativePart)
        ELSE IF ActivePartition[3] # 0
                  /\ IsSupportedActivePartition(
                        RegionAt(ds, ActivePartition[1], ActivePartition[2], ActivePartition[3]))
        THEN ActivePartition
        ELSE IF DiskEntry # AlternativeDisk /\ Supported # {}
        THEN <<DiskEntry, FALSE, FirstOf(Supported)>>
        ELSE IF DiskEntry # AlternativeDisk
                  /\ GetPrimaryPartitionCount(ds[DiskEntry]) < 4
                  /\ Unpartitioned # {}
        THEN <<DiskEntry, FALSE, FirstOf(Unpartitioned)>>
        ELSE UseAlternativeDisk(ds, DiskEntry, ForceSelect, AlternativeDisk, AlternativePart)

\* what an NTFS volume answers to MountVolume
VolNtfs == [openOk |-> TRUE, fs |-> "NTFS", label |-> "WIN", reopenOk |-> TRUE]

\* a disk of 2268 sectors with one active NTFS primary of n sectors
NtfsDisk(DiskNumber, n) ==
    [RawDisk(DiskNumber, PARTITION_MAGIC, <<PARTITION_IFS, 0, 0, 0>>, 36, 4,
             [i \in 1..4 |->
                 IF i = 1 THEN RawSlot(2048, n, PARTITION_IFS, TRUE, 1)
                 ELSE ZeroSlot])
        EXCEPT !.Vol[1] = VolNtfs]

\* the device raw with no partition marked active
Inactive(raw) ==
    [raw EXCEPT !.Layout.PartitionEntry =
        [i \in DOMAIN @ |-> [@[i] EXCEPT !.BootIndicator = FALSE]]]

\* machines whose first disk boots from NTFS: the NTFS partition takes all
\* the disk or leaves room, the second disk has an active FAT partition or
\* none
FindDevices ==
    << <<NtfsDisk(0, 220), Inactive(MbrDisk(1))>>,
       <<NtfsDisk(0, 100), Inactive(MbrDisk(1))>>,
       <<NtfsDisk(0, 220), MbrDisk(1)>> >>

InitFind == InitOn(FindDevices, MaxFindOps)

\* FindSupportedSystemPartition: lastOp.whole is ForceSelect, lastOp.d
\* AlternativeDisk, lastOp.hint AlternativePart and lastOp.free the
\* PARTENTRY returned.  A read through a NULL pointer is undefined: the
\* call does not return (q is NullDereference) or it returns NULL or some
\* region, and lastOp.why tells that the read took place
DoFindSupportedSystemPartition ==
    /\ Spend
    /\ ~IsDangling(disks, SystemPartition)
    /\ \E ForceSelect \in BOOLEAN, AlternativeDisk \in 0..Len(disks),
          AlternativePart \in Pointers(disks) :
          /\ AlternativePart[3] # 0 =>
                (AlternativeDisk = 0 \/ AlternativePart[1] = AlternativeDisk)
          /\ LET r == FindSupportedSystemPartition(disks, SystemPartition,
                          ForceSelect, AlternativeDisk, AlternativePart)
             IN  IF r = NullDereference
                 THEN \E q \in Pointers(disks) \cup {NullDereference} :
                         lastOp' = [NoOp EXCEPT
                              !.op = "find",
                              !.ok = q[3] # 0,
                              !.why = IF q = NullDereference
                                      THEN "null dereference, no return"
                                      ELSE "null dereference",
                              !.whole = ForceSelect,
                              !.d = AlternativeDisk,
                              !.hint = AlternativePart,
                              !.free = IF q[3] = 0 THEN NULL
                                       ELSE RegionAt(disks, q[1], q[2], q[3]).id]
                 ELSE
                 lastOp' = [NoOp EXCEPT
                              !.op = "find",
                              !.ok = r[3] # 0,
                              !.whole = ForceSelect,
                              !.d = AlternativeDisk,
                              !.hint = AlternativePart,
                              !.free = IF r[3] = 0 THEN NULL
                                       ELSE RegionAt(disks, r[1], r[2], r[3]).id]
    /\ pre' = <<>>
    /\ UNCHANGED <<disks, SystemPartition>>

NextFind == DoFindSupportedSystemPartition \/ DoSetActivePartition

SpecFind == InitFind /\ [][NextFind]_vars

\* the scenario: two disks, the first is the system disk and its active
\* partition, the system partition, is formatted with NTFS; the call was
\* FindSupportedSystemPartition(List, TRUE, second disk, a primary
\* partition of the second disk)
NtfsSystemDiskScenario ==
    /\ lastOp.op = "find"
    /\ Len(disks) = 2
    /\ GetSystemDisk(disks, SystemPartition, 0) = 1
    /\ GetActiveDiskPartition(disks[1]) # 0
    /\ disks[1].PrimaryPartList[GetActiveDiskPartition(disks[1])].id = SystemPartition
    /\ disks[1].PrimaryPartList[GetActiveDiskPartition(disks[1])].Volume.FormatState
          = "Formatted"
    /\ disks[1].PrimaryPartList[GetActiveDiskPartition(disks[1])].Volume.FileSystem
          = "NTFS"
    /\ lastOp.whole
    /\ lastOp.d = 2
    /\ lastOp.hint[1] = 2 /\ ~lastOp.hint[2] /\ lastOp.hint[3] # 0
    /\ disks[2].PrimaryPartList[lastOp.hint[3]].IsPartitioned

\* the PARTENTRY passed as AlternativePart
AlternativePartId == RegionAt(disks, lastOp.hint[1], lastOp.hint[2], lastOp.hint[3]).id

\* the system disk offers nothing else: apart from the system partition its
\* primary list holds no supported partition and no unpartitioned region
\* that a fifth primary would not rule out; and the alternative disk is not
\* new and has no supported active partition other than AlternativePart
NothingElseToUse ==
    /\ \A k \in DOMAIN disks[1].PrimaryPartList :
          LET r == disks[1].PrimaryPartList[k]
          IN  r.id # SystemPartition =>
                /\ ~(r.IsPartitioned /\ ~IsContainerPartition(r.PartitionType)
                       /\ IsSupportedActivePartition(r))
                /\ (~r.IsPartitioned => GetPrimaryPartitionCount(disks[1]) >= 4)
    /\ ~disks[2].NewDisk
    /\ LET a == GetActiveDiskPartition(disks[2])
       IN  \/ a = 0
           \/ ~IsSupportedActivePartition(disks[2].PrimaryPartList[a])
           \/ disks[2].PrimaryPartList[a].id = AlternativePartId

ENUM_REGION_NEXT == 0
ENUM_REGION_PREV == 1
ENUM_REGION_PARTITIONED == 2
ENUM_REGION_MBR_PRIMARY_ONLY == 16
ENUM_REGION_MBR_LOGICAL_ONLY == 32
ENUM_REGION_MBR_BY_ORDER == 64

\* EnumFlags & Flag, for a Flag of one bit
HasFlag(EnumFlags, Flag) == (EnumFlags \div Flag) % 2 = 1

\* GET_ADJ_RECORD_IMPL on a list of n records: the position after (before)
\* position k, position 0 standing for the list head and for NULL
GetAdjRecord(n, k, Direction) ==
    IF Direction THEN (IF k < n THEN k + 1 ELSE 0)
    ELSE IF k = 0 THEN n ELSE k - 1

GetAdjDiskListEntry(ds, DiskEntry, Direction) ==
    GetAdjRecord(Len(ds), DiskEntry, Direction)

\* GetAdjPartListEntry on the primary or logical list of a disk; a region is
\* the pair of its list and its position, <<FALSE, 0>> is NULL
GetAdjPartListEntry(DiskEntry, Logical, k, Direction) ==
    LET n == GetAdjRecord(Len(PartList(DiskEntry, Logical)), k, Direction)
    IN  IF n = 0 THEN <<FALSE, 0>> ELSE <<Logical, n>>

\* the position of the extended partition in the primary list, 0 for none
ExtendedPosition(DiskEntry) ==
    FirstOf({k \in DOMAIN DiskEntry.PrimaryPartList :
                DiskEntry.ExtendedPartition # NULL
                  /\ DiskEntry.PrimaryPartList[k].id = DiskEntry.ExtendedPartition})

\* GetNextMBRDiskRegionByOrder staying in the primary list
GetNextMBRDiskRegionByOrder_PrimaryOnly(CurrentDisk, CurrentPart) ==
    GetAdjPartListEntry(CurrentDisk, FALSE, CurrentPart[2], TRUE)

GetNextMBRDiskRegionByOrder(CurrentDisk, CurrentPart) ==
    LET r == PartList(CurrentDisk, CurrentPart[1])[CurrentPart[2]]
        n == GetAdjPartListEntry(CurrentDisk, TRUE,
                 IF r.id = CurrentDisk.ExtendedPartition THEN 0 ELSE CurrentPart[2],
                 TRUE)
    IN  IF CurrentPart[2] # 0
             /\ (r.id = CurrentDisk.ExtendedPartition \/ r.LogicalPartition)
        THEN IF n[2] # 0 THEN n
             ELSE GetAdjPartListEntry(CurrentDisk, FALSE,
                                      ExtendedPosition(CurrentDisk), TRUE)
        ELSE GetAdjPartListEntry(CurrentDisk, FALSE, CurrentPart[2], TRUE)

GetPrevMBRDiskRegionByOrder(CurrentDisk, CurrentPart) ==
    LET r == PartList(CurrentDisk, CurrentPart[1])[CurrentPart[2]]
        l == GetAdjPartListEntry(CurrentDisk, TRUE, CurrentPart[2], FALSE)
        p == GetAdjPartListEntry(CurrentDisk, FALSE, CurrentPart[2], FALSE)
        LastLogical == GetAdjPartListEntry(CurrentDisk, TRUE, 0, FALSE)
    IN  IF CurrentPart[2] # 0 /\ r.LogicalPartition
        THEN IF l[2] = 0 THEN <<FALSE, ExtendedPosition(CurrentDisk)>> ELSE l
        ELSE IF p[2] # 0 /\ p[2] = ExtendedPosition(CurrentDisk) /\ LastLogical[2] # 0
        THEN LastLogical
        ELSE p

GetNextMBRDiskRegionByType(CurrentDisk, CurrentPart) ==
    LET r == PartList(CurrentDisk, CurrentPart[1])[CurrentPart[2]]
        p == GetAdjPartListEntry(CurrentDisk, FALSE, CurrentPart[2], TRUE)
    IN  IF CurrentPart[2] = 0 \/ ~r.LogicalPartition
        THEN IF p[2] # 0 THEN p
             ELSE GetAdjPartListEntry(CurrentDisk, TRUE, 0, TRUE)
        ELSE GetAdjPartListEntry(CurrentDisk, TRUE, CurrentPart[2], TRUE)

GetPrevMBRDiskRegionByType(CurrentDisk, CurrentPart) ==
    LET r == PartList(CurrentDisk, CurrentPart[1])[CurrentPart[2]]
        l == GetAdjPartListEntry(CurrentDisk, TRUE, CurrentPart[2], FALSE)
    IN  IF CurrentPart[2] = 0 \/ r.LogicalPartition
        THEN IF l[2] # 0 THEN l
             ELSE GetAdjPartListEntry(CurrentDisk, FALSE, 0, FALSE)
        ELSE GetAdjPartListEntry(CurrentDisk, FALSE, CurrentPart[2], FALSE)

\* GetAdjDiskRegion from the label Retry on: CurrentDisk is a DISKENTRY
RECURSIVE GetAdjDiskRegionRetry(_, _, _)
GetAdjDiskRegionRetry(CurrentDisk, CurrentPart, EnumFlags) ==
    LET Direction == ~HasFlag(EnumFlags, ENUM_REGION_PREV)
        n == IF CurrentDisk.DiskStyle = "MBR"
             THEN IF HasFlag(EnumFlags, ENUM_REGION_MBR_PRIMARY_ONLY)
                  THEN GetAdjPartListEntry(CurrentDisk, FALSE, CurrentPart[2], Direction)
                  ELSE IF HasFlag(EnumFlags, ENUM_REGION_MBR_LOGICAL_ONLY)
                  THEN GetAdjPartListEntry(CurrentDisk, TRUE, CurrentPart[2], Direction)
                  ELSE IF HasFlag(EnumFlags, ENUM_REGION_MBR_BY_ORDER)
                  THEN IF Direction
                       THEN GetNextMBRDiskRegionByOrder(CurrentDisk, CurrentPart)
                       ELSE GetPrevMBRDiskRegionByOrder(CurrentDisk, CurrentPart)
                  ELSE IF Direction
                       THEN GetNextMBRDiskRegionByType(CurrentDisk, CurrentPart)
                       ELSE GetPrevMBRDiskRegionByType(CurrentDisk, CurrentPart)
             ELSE GetAdjPartListEntry(CurrentDisk, FALSE, CurrentPart[2], Direction)
    IN  IF HasFlag(EnumFlags, ENUM_REGION_PARTITIONED) /\ n[2] # 0
             /\ ~PartList(CurrentDisk, n[1])[n[2]].IsPartitioned
        THEN GetAdjDiskRegionRetry(CurrentDisk, n, EnumFlags)
        ELSE n

\* GetAdjDiskRegion(CurrentDisk, CurrentPart, EnumFlags): CurrentDisk is the
\* index of a disk or 0 for NULL, CurrentPart and the result are PARTENTRY
\* pointers, position 0 for NULL
GetAdjDiskRegion(ds, CurrentDisk, CurrentPart, EnumFlags) ==
    LET Restart == CurrentDisk # 0
                     /\ (CurrentPart[3] = 0 \/ CurrentDisk # CurrentPart[1])
        d == IF Restart THEN CurrentDisk ELSE CurrentPart[1]
        r == GetAdjDiskRegionRetry(ds[d],
                 IF Restart THEN <<FALSE, 0>> ELSE <<CurrentPart[2], CurrentPart[3]>>,
                 EnumFlags)
    IN  IF CurrentDisk = 0 /\ CurrentPart[3] = 0 THEN <<1, FALSE, 0>>
        ELSE IF r[2] = 0 THEN <<1, FALSE, 0>>
        ELSE <<d, r[1], r[2]>>

\* the loop of GetAdjPartition over the disks that follow CurrentDisk in
\* the direction Direction
RECURSIVE GetAdjPartitionOnDisks(_, _, _, _)
GetAdjPartitionOnDisks(ds, CurrentDisk, Direction, EnumFlags) ==
    LET d == GetAdjDiskListEntry(ds, CurrentDisk, Direction)
        r == GetAdjDiskRegion(ds, d, <<1, FALSE, 0>>, EnumFlags)
    IN  IF d = 0 THEN <<1, FALSE, 0>>
        ELSE IF r[3] # 0 THEN r
        ELSE GetAdjPartitionOnDisks(ds, d, Direction, EnumFlags)

\* the BOOLEAN Direction GetAdjPartition passes to GetAdjDiskListEntry: its
\* ULONG EnumFlags converted to a UCHAR
DiskDirection(EnumFlags) == EnumFlags % 256 # 0

\* GetAdjPartition(List, CurrentPart, EnumFlags)
GetAdjPartition(ds, CurrentPart, EnumFlags) ==
    LET r == GetAdjDiskRegion(ds, 0, CurrentPart, EnumFlags)
    IN  IF CurrentPart[3] # 0 /\ r[3] # 0 THEN r
        ELSE IF ds = <<>> THEN <<1, FALSE, 0>>
        ELSE GetAdjPartitionOnDisks(ds,
                 IF CurrentPart[3] # 0 THEN CurrentPart[1] ELSE 0,
                 DiskDirection(EnumFlags), EnumFlags)

\* the flags a caller combines: a direction, all or partitioned regions,
\* and at most one of the three MBR modes
EnumFlagValues ==
    {dir + part + mode :
        dir \in {ENUM_REGION_NEXT, ENUM_REGION_PREV},
        part \in {0, ENUM_REGION_PARTITIONED},
        mode \in {0, ENUM_REGION_MBR_PRIMARY_ONLY, ENUM_REGION_MBR_LOGICAL_ONLY,
                  ENUM_REGION_MBR_BY_ORDER}}

\* the regions a caller may continue from under EnumFlags: NULL, or a region
\* of a list the enumeration goes through
CanContinueFrom(ds, CurrentPart, EnumFlags) ==
    \/ CurrentPart[3] = 0
    \/ IF ds[CurrentPart[1]].DiskStyle = "MBR"
       THEN /\ HasFlag(EnumFlags, ENUM_REGION_MBR_PRIMARY_ONLY) => ~CurrentPart[2]
            /\ HasFlag(EnumFlags, ENUM_REGION_MBR_LOGICAL_ONLY) => CurrentPart[2]
       ELSE ~CurrentPart[2]

\* two MBR disks around a GPT disk, a blank disk before a GPT disk, and a
\* blank disk between two MBR disks
EnumDevices ==
    << <<MbrDisk(0), GptDisk(1), MbrDisk(2)>>,
       <<FreshDisk(0), GptDisk(1)>>,
       <<MbrDisk(0), FreshDisk(1), MbrDisk(2)>> >>

InitEnum == InitOn(EnumDevices, MaxEnumOps)

\* lastOp.d, Logical and idx are CurrentPart, lastOp.merged is EnumFlags and
\* lastOp.hint the region returned
DoGetAdjPartition ==
    /\ Spend
    /\ \E CurrentPart \in Pointers(disks), EnumFlags \in EnumFlagValues :
          /\ CanContinueFrom(disks, CurrentPart, EnumFlags)
          /\ lastOp' = [NoOp EXCEPT
                           !.op = "adjacent_partition",
                           !.d = CurrentPart[1], !.Logical = CurrentPart[2],
                           !.idx = CurrentPart[3],
                           !.merged = EnumFlags,
                           !.hint = GetAdjPartition(disks, CurrentPart, EnumFlags),
                           !.ok = GetAdjPartition(disks, CurrentPart, EnumFlags)[3] # 0]
    /\ pre' = <<>>
    /\ UNCHANGED <<disks, SystemPartition>>

\* GetAdjDiskRegion(CurrentDisk, NULL, EnumFlags) and GetAdjDiskRegion(NULL,
\* CurrentPart, EnumFlags); lastOp.d is the disk, lastOp.idx = 0 for NULL
DoGetAdjDiskRegion ==
    /\ Spend
    /\ \E CurrentPart \in Pointers(disks), CurrentDisk \in 1..Len(disks),
          EnumFlags \in EnumFlagValues :
          /\ CanContinueFrom(disks, CurrentPart, EnumFlags)
          /\ CurrentPart[3] # 0 => CurrentDisk = CurrentPart[1]
          /\ lastOp' = [NoOp EXCEPT
                           !.op = "adjacent_region",
                           !.d = CurrentDisk, !.Logical = CurrentPart[2],
                           !.idx = CurrentPart[3],
                           !.merged = EnumFlags,
                           !.hint = GetAdjDiskRegion(disks, CurrentDisk, CurrentPart, EnumFlags),
                           !.ok = GetAdjDiskRegion(disks, CurrentDisk, CurrentPart, EnumFlags)[3] # 0]
    /\ pre' = <<>>
    /\ UNCHANGED <<disks, SystemPartition>>

NextEnum == DoGetAdjPartition \/ DoGetAdjDiskRegion \/ DoDeletePartition

SpecEnum == InitEnum /\ [][NextEnum]_vars

\* the region GetAdjPartition was called on
C27_Current == <<lastOp.d, lastOp.Logical, lastOp.idx>>

\* the direction the flags request
RequestedDirection(EnumFlags) == ~HasFlag(EnumFlags, ENUM_REGION_PREV)

\* GetAdjPartition was called on a region whose disk has no further
\* matching region
C27_DiskExhausted ==
    /\ lastOp.op = "adjacent_partition"
    /\ lastOp.idx # 0
    /\ GetAdjDiskRegion(disks, 0, C27_Current, lastOp.merged)[3] = 0

\* C27: when the disk of current has no further matching region,
\* adjacent_partition returns the first matching region of the next disk
\* with direction Next and the last matching region of the previous disk
\* with direction Prev, whatever the other flags are
C27_CrossesDisksInRequestedDirection ==
    C27_DiskExhausted
        => lastOp.hint = GetAdjPartitionOnDisks(disks, lastOp.d,
                             RequestedDirection(lastOp.merged), lastOp.merged)

\* the regions GetAdjDiskRegion(disk d, ., EnumFlags) returns one after the
\* other, from CurrentPart on, until it returns NULL
RECURSIVE EnumerateDiskRegions(_, _, _, _, _)
EnumerateDiskRegions(ds, d, CurrentPart, EnumFlags, fuel) ==
    LET r == GetAdjDiskRegion(ds, d, CurrentPart, EnumFlags)
    IN  IF r[3] = 0 \/ fuel = 0 THEN <<>>
        ELSE << <<r[2], r[3]>> >> \o EnumerateDiskRegions(ds, d, r, EnumFlags, fuel - 1)

\* the positions 1..n of a list as regions
ListRegions(Logical, n) == [k \in 1..n |-> <<Logical, k>>]

\* the primary regions from position k on, the logical regions standing
\* in the place of the extended container (Replaced) or after it
RECURSIVE InOrderOfAppearance(_, _, _)
InOrderOfAppearance(DiskEntry, k, Replaced) ==
    IF k > Len(DiskEntry.PrimaryPartList) THEN <<>>
    ELSE (IF k # ExtendedPosition(DiskEntry) THEN << <<FALSE, k>> >>
          ELSE (IF Replaced THEN <<>> ELSE << <<FALSE, k>> >>)
                 \o ListRegions(TRUE, Len(DiskEntry.LogicalPartList)))
         \o InOrderOfAppearance(DiskEntry, k + 1, Replaced)

\* the element of seq after cur, the first one after NULL, NULL after the last
SuccessorIn(seq, cur) ==
    LET at == FirstOf({i \in DOMAIN seq : seq[i] = cur})
    IN  IF cur[2] = 0 THEN (IF seq = <<>> THEN <<FALSE, 0>> ELSE seq[1])
        ELSE IF at = 0 \/ at = Len(seq) THEN <<FALSE, 0>>
        ELSE seq[at + 1]

\* GetAdjDiskRegion was called on an MBR disk with the flag MBR_BY_ORDER
\* alone, direction Next
C28_ByOrderNext ==
    /\ lastOp.op = "adjacent_region"
    /\ lastOp.merged = ENUM_REGION_NEXT + ENUM_REGION_MBR_BY_ORDER
    /\ disks[lastOp.d].DiskStyle = "MBR"

C28_Enumerated ==
    EnumerateDiskRegions(disks, lastOp.d, <<1, FALSE, 0>>, lastOp.merged,
        Len(disks[lastOp.d].PrimaryPartList) + Len(disks[lastOp.d].LogicalPartList) + 1)

\* C28: under MbrByOrder with direction Next, adjacent_region emits the
\* primary regions of an MBR disk in list order, the extended container
\* replaced in the sequence by its logical regions in order, and resumes
\* at the primary region that follows the container
C28_ContainerReplacedByLogicals ==
    C28_ByOrderNext
        => C28_Enumerated = InOrderOfAppearance(disks[lastOp.d], 1, TRUE)

\* C28, amended: the extended container is emitted in its place in the
\* primary list and is followed by its logical regions in order, traversal
\* then resuming at the primary region that follows the container; each
\* call returns the successor of the region it was given
C28_ContainerFollowedByLogicals ==
    C28_ByOrderNext
        => /\ C28_Enumerated = InOrderOfAppearance(disks[lastOp.d], 1, FALSE)
           /\ <<lastOp.hint[2], lastOp.hint[3]>>
                 = SuccessorIn(InOrderOfAppearance(disks[lastOp.d], 1, FALSE),
                               <<lastOp.Logical, lastOp.idx>>)
           /\ lastOp.hint[3] # 0 => lastOp.hint[1] = lastOp.d

\* the call was made on the last logical region of a container that has a
\* primary region after it, and returned that primary region
C28_ResumedAfterContainer ==
    /\ C28_ByOrderNext
    /\ lastOp.Logical
    /\ lastOp.idx = Len(disks[lastOp.d].LogicalPartList)
    /\ lastOp.idx > 1
    /\ lastOp.hint = <<lastOp.d, FALSE, ExtendedPosition(disks[lastOp.d]) + 1>>

(***************************************************************************)
(* Mounting and dismounting volumes                                        *)
(***************************************************************************)
\* what the volume device answers to DismountVolume
VolumeIoOutcomes ==
    [openOk : BOOLEAN, lockOk : BOOLEAN, dismountOk : BOOLEAN, unlockOk : BOOLEAN]

\* the test DismountVolume makes first: the volume was mounted by the system
VolumeIsMounted(VolumeEntry) ==
    ~ \/ VolumeEntry.DeviceName = <<>>
      \/ VolumeEntry.FormatState = "UnknownFormat"
      \/ VolumeEntry.FileSystem = ""

\* a DismountVolume that resets the VOLINFO only when the dismount succeeded
DismountVolumeWith_IfDismounted(VolumeEntry, io) ==
    IF io.dismountOk THEN DismountVolume(VolumeEntry, io.openOk) ELSE VolumeEntry

\* DismountVolume(VolumeEntry) on a device that answers io: the VOLINFO is
\* reset before the lock, dismount and unlock controls are issued
DismountVolumeWith(VolumeEntry, io) == DismountVolume(VolumeEntry, io.openOk)

DismountVolumeStatus(VolumeEntry, io) ==
    IF ~VolumeIsMounted(VolumeEntry) THEN "STATUS_SUCCESS"
    ELSE IF ~io.openOk THEN "NtOpenFile failed"
    ELSE IF ~io.dismountOk THEN "FSCTL_DISMOUNT_VOLUME failed"
    ELSE "STATUS_SUCCESS"

\* the calls DismountVolume makes to the device, each with its outcome
DismountVolumeCalls(VolumeEntry, io) ==
    IF ~VolumeIsMounted(VolumeEntry) THEN <<>>
    ELSE IF ~io.openOk THEN << <<"NtOpenFile", FALSE>> >>
    ELSE << <<"NtOpenFile", TRUE>>,
            <<"FSCTL_LOCK_VOLUME", io.lockOk>>,
            <<"FSCTL_DISMOUNT_VOLUME", io.dismountOk>>,
            <<"FSCTL_UNLOCK_VOLUME", io.unlockOk>>,
            <<"NtClose", TRUE>> >>

\* a DismountVolume that returns at the failure of the dismount control
DismountVolumeHandles_ReturnOnFailure(VolumeEntry, io) ==
    IF ~VolumeIsMounted(VolumeEntry) \/ ~io.openOk THEN <<>>
    ELSE IF ~io.dismountOk
    THEN <<"NtOpenFile", "FSCTL_LOCK_VOLUME", "FSCTL_DISMOUNT_VOLUME">>
    ELSE <<"NtOpenFile", "FSCTL_LOCK_VOLUME", "FSCTL_DISMOUNT_VOLUME",
           "FSCTL_UNLOCK_VOLUME", "NtClose">>

\* the calls DismountVolume makes on PartitionHandle
DismountVolumeHandles(VolumeEntry, io) ==
    IF ~VolumeIsMounted(VolumeEntry) \/ ~io.openOk THEN <<>>
    ELSE <<"NtOpenFile", "FSCTL_LOCK_VOLUME", "FSCTL_DISMOUNT_VOLUME",
           "FSCTL_UNLOCK_VOLUME", "NtClose">>

\* the calls MountVolume makes on PartitionHandle, those of the
\* DismountVolume it calls included; dio is what the device answers to the
\* latter
MountVolumeHandles(VolumeEntry, MbrPartitionType, openOk, fs, dio) ==
    IF VolumeEntry.DeviceName = <<>> \/ ~openOk THEN <<>>
    ELSE <<"NtOpenFile", "InferFileSystem">>
         \o (IF fs = "RAW" /\ ~IsFatFamilyType(MbrPartitionType)
             THEN <<"NtClose">>
                  \o DismountVolumeHandles(
                         [VolumeEntry EXCEPT !.FormatState = "Unformatted",
                                             !.FileSystem = fs,
                                             !.VolumeLabel = ""], dio)
             ELSE <<"NtQueryVolumeInformationFile", "NtClose">>)

\* the calls MountVolume makes, each with its outcome: what InferFileSystem
\* stored and the label the query returned
MountVolumeCalls(VolumeEntry, MbrPartitionType, openOk, fs, label, dio) ==
    IF VolumeEntry.DeviceName = <<>> THEN <<>>
    ELSE IF ~openOk THEN << <<"NtOpenFile", FALSE>> >>
    ELSE << <<"NtOpenFile", TRUE>>, <<"InferFileSystem", fs>> >>
         \o (IF fs = "RAW" /\ ~IsFatFamilyType(MbrPartitionType)
             THEN << <<"NtClose", TRUE>> >>
                  \o DismountVolumeCalls(
                         [VolumeEntry EXCEPT !.FormatState = "Unformatted",
                                             !.FileSystem = fs,
                                             !.VolumeLabel = ""], dio)
             ELSE << <<"NtQueryVolumeInformationFile", label>>,
                     <<"NtClose", TRUE>> >>)

\* the regions of the disks
Regions(ds) == {p \in Pointers(ds) : p[3] # 0}

SetVolume(ds, p, v) ==
    [ds EXCEPT ![p[1]] =
        SetPartList(@, p[2], [PartList(@, p[2]) EXCEPT ![p[3]].Volume = v])]

InitVolume == InitOn(WriteDevices, MaxVolumeOps)

\* DismountVolume(&PartEntry->Volume); pre is the VOLINFO before the call
DoDismountVolume ==
    /\ Spend
    /\ \E p \in Regions(disks), io \in VolumeIoOutcomes :
         LET v == RegionAt(disks, p[1], p[2], p[3]).Volume
         IN  /\ disks' = SetVolume(disks, p, DismountVolumeWith(v, io))
             /\ lastOp' = [NoOp EXCEPT
                              !.op = "dismount_volume",
                              !.ok = DismountVolumeStatus(v, io) = "STATUS_SUCCESS",
                              !.why = DismountVolumeStatus(v, io),
                              !.d = p[1], !.Logical = p[2], !.idx = p[3],
                              !.calls = DismountVolumeCalls(v, io),
                              !.handles = DismountVolumeHandles(v, io)]
             /\ pre' = v
    /\ UNCHANGED SystemPartition

\* MountVolume(&PartEntry->Volume, PartEntry->PartitionType), which always
\* returns STATUS_SUCCESS; label is "" when the query of the label fails
DoMountVolume ==
    /\ Spend
    /\ \E p \in Regions(disks), openOk \in BOOLEAN, fs \in {"", "RAW", "FAT"},
          label \in {"", "DATA"}, dio \in VolumeIoOutcomes :
         LET r == RegionAt(disks, p[1], p[2], p[3])
         IN  /\ disks' = SetVolume(disks, p,
                             MountVolume(r.Volume, r.PartitionType, openOk, fs,
                                         label, dio.openOk))
             /\ lastOp' = [NoOp EXCEPT
                              !.op = "mount_volume",
                              !.d = p[1], !.Logical = p[2], !.idx = p[3],
                              !.calls = MountVolumeCalls(r.Volume, r.PartitionType,
                                                         openOk, fs, label, dio),
                              !.handles = MountVolumeHandles(r.Volume, r.PartitionType,
                                                             openOk, fs, dio)]
             /\ pre' = r.Volume
    /\ UNCHANGED SystemPartition

NextVolume ==
    \/ DoMountVolume
    \/ DoDismountVolume
    \/ DoSetActivePartition
    \/ DoWritePartitions

SpecVolume == InitVolume /\ [][NextVolume]_vars

\* the volume DismountVolume or MountVolume was called on, as it is now
VolumeCalledOn == RegionAt(disks, lastOp.d, lastOp.Logical, lastOp.idx).Volume

VolumeIsReset(VolumeEntry) ==
    /\ VolumeEntry.DriveLetter = 0
    /\ VolumeEntry.FileSystem = ""
    /\ VolumeEntry.VolumeLabel = ""
    /\ VolumeEntry.FormatState = "Unformatted"

C29_DismountedMounted ==
    lastOp.op = "dismount_volume" /\ VolumeIsMounted(pre)

\* C29: whenever dismount_volume is called on a mounted volume, on return
\* the drive letter, the filesystem and the label of the volume are cleared
\* and its format state is Unformatted, whether or not the lock and the
\* dismount control operations succeed
C29_AlwaysReset ==
    C29_DismountedMounted => VolumeIsReset(VolumeCalledOn)

\* C29, amended: that holds whenever the device of the volume could be
\* opened, whatever the lock, dismount and unlock controls answer; when the
\* open fails the call returns the failure and leaves the volume as it was
C29_ResetWhenOpened ==
    C29_DismountedMounted
        => IF lastOp.why = "NtOpenFile failed"
           THEN VolumeCalledOn = pre /\ ~lastOp.ok
           ELSE VolumeIsReset(VolumeCalledOn)

\* a mounted volume with a drive letter was reset although both the lock
\* and the dismount control failed
C29_ResetAfterFailedDismount ==
    /\ C29_DismountedMounted
    /\ pre.DriveLetter # 0
    /\ <<"FSCTL_LOCK_VOLUME", FALSE>> \in {lastOp.calls[k] : k \in DOMAIN lastOp.calls}
    /\ lastOp.why = "FSCTL_DISMOUNT_VOLUME failed"
    /\ VolumeIsReset(VolumeCalledOn)

\* how many times the call c occurs among the first n calls of a trace
RECURSIVE CountCalls(_, _, _)
CountCalls(trace, c, n) ==
    IF n = 0 THEN 0
    ELSE CountCalls(trace, c, n - 1) + (IF trace[n] = c THEN 1 ELSE 0)

\* the handles open after the first n calls of a trace
OpenHandles(trace, n) ==
    CountCalls(trace, "NtOpenFile", n) - CountCalls(trace, "NtClose", n)

C30_Returned ==
    lastOp.op \in {"mount_volume", "dismount_volume", "write_partitions"}

\* C30: on every exit path of mount_volume, dismount_volume and
\* write_partitions, success and each I/O failure, every device handle the
\* operation opened has been closed when it returns; no call is made on a
\* handle that is not open and no handle is closed twice
C30_HandlesClosedOnReturn ==
    C30_Returned
        => /\ OpenHandles(lastOp.handles, Len(lastOp.handles)) = 0
           /\ \A n \in 1..Len(lastOp.handles) :
                 OpenHandles(lastOp.handles, n - 1)
                    = (IF lastOp.handles[n] = "NtOpenFile" THEN 0 ELSE 1)

\* mount_volume found a RawFS volume on a partition that is not of a FAT
\* type, closed its handle, and the dismount it then called opened the
\* device a second time
C30_MountOpenedTwice ==
    /\ lastOp.op = "mount_volume"
    /\ CountCalls(lastOp.handles, "NtOpenFile", Len(lastOp.handles)) = 2
    /\ CountCalls(lastOp.handles, "NtClose", Len(lastOp.handles)) = 2

\* what InferFileSystem stored during the call, "" when it was not called
C31_Inferred ==
    LET K == {k \in DOMAIN lastOp.calls : lastOp.calls[k][1] = "InferFileSystem"}
    IN  IF K = {} THEN "" ELSE lastOp.calls[CHOOSE k \in K : TRUE][2]

C31_MbrType == RegionAt(disks, lastOp.d, lastOp.Logical, lastOp.idx).PartitionType

\* C31: mount_volume ends in the documented format state: with an empty
\* device name the volume is Unformatted with empty filesystem; with RAW
\* inferred and a type of the FAT family (0x01, 0x04, 0x06, 0x0E, 0x0B,
\* 0x0C) it is Unformatted; with RAW and any other type the volume is
\* dismounted and UnknownFormat with empty filesystem; with another
\* filesystem inferred it is Formatted with that filesystem
C31_MountEndsInDocumentedState ==
    lastOp.op = "mount_volume"
        => IF pre.DeviceName = <<>>
           THEN /\ VolumeCalledOn.FormatState = "Unformatted"
                /\ VolumeCalledOn.FileSystem = ""
           ELSE IF C31_Inferred = "RAW" /\ C31_MbrType \in {1, 4, 6, 14, 11, 12}
           THEN VolumeCalledOn.FormatState = "Unformatted"
           ELSE IF C31_Inferred = "RAW"
           THEN /\ VolumeCalledOn.FormatState = "UnknownFormat"
                /\ VolumeCalledOn.FileSystem = ""
                /\ \E k \in DOMAIN lastOp.calls :
                      k > 2 /\ lastOp.calls[k][1] = "NtOpenFile"
           ELSE C31_Inferred # ""
                   => /\ VolumeCalledOn.FormatState = "Formatted"
                      /\ VolumeCalledOn.FileSystem = C31_Inferred

\* a volume that was Formatted is found mounted by RawFS on a partition
\* of a type outside the FAT family and ends UnknownFormat
C31_RawOnOtherType ==
    /\ lastOp.op = "mount_volume"
    /\ pre.FormatState = "Formatted"
    /\ C31_Inferred = "RAW"
    /\ C31_MbrType \notin {1, 4, 6, 14, 11, 12}
    /\ VolumeCalledOn.FormatState = "UnknownFormat"

\* C32: a create_partition or create_extended_partition that succeeds on
\* the free region [s, s + c) leaves a partition that starts at s and has
\* a sector count k with 1 <= k <= c, never zero and never a wrapped
\* unsigned difference
C32_CreatedCountWithinRegion ==
    (lastOp.op \in {"create", "create_extended"} /\ lastOp.ok) =>
        LET now == Topology(disks)[lastOp.d][lastOp.Logical]
            was == pre[lastOp.d][lastOp.Logical]
        IN  /\ now[lastOp.idx][1] = was[lastOp.idx][1]
            /\ now[lastOp.idx][2] >= 1
            /\ now[lastOp.idx][2] <= was[lastOp.idx][2]

\* the layout slots (indices from 0) UpdateDiskLayout gives to the
\* partitioned regions of a disk, and the link slots that describe a
\* following logical partition
UsedLayoutSlots(DiskEntry) ==
    LET n == GetPartitionCount(DiskEntry.LogicalPartList)
    IN  (0..(GetPrimaryPartitionCount(DiskEntry) - 1))
          \cup {4 * j : j \in 1..n}
          \cup {4 * j + 1 : j \in 1..(n - 1)}

IsZeroedSlot(PartitionInfo) ==
    [PartitionInfo EXCEPT !.RewritePartition = FALSE] = ZeroSlot

\* a create or a delete has edited the lists of disk lastOp.d and called
\* UpdateDiskLayout
C33_LayoutUpdated ==
    /\ lastOp.op \in {"create", "create_extended", "delete"}
    /\ lastOp.ok
    /\ disks[lastOp.d].DiskStyle = "MBR"

\* C33: after update_disk_layout the layout buffer has exactly
\* 4 + 4 * (number of partitioned logical regions) slots, and every slot
\* that is neither the slot of a partitioned region nor the link slot of an
\* existing following logical partition is wiped to zero
C33_LayoutSizedAndWiped ==
    C33_LayoutUpdated =>
        LET DiskEntry == disks[lastOp.d]
            LayoutBuffer == DiskEntry.LayoutBuffer
        IN  /\ LayoutBuffer.PartitionCount
                  = 4 + 4 * GetPartitionCount(DiskEntry.LogicalPartList)
            /\ \A Index \in 0..(LayoutBuffer.PartitionCount - 1) :
                  Index \notin UsedLayoutSlots(DiskEntry)
                     => IsZeroedSlot(GetLayoutEntry(DiskEntry, Index))

(***************************************************************************)
(* Scanning devices                                                        *)
(***************************************************************************)
\* an MBR disk of Cylinders tracks with an active FAT16 primary of len1
\* sectors at 2048 and, gap sectors behind its end (before its end when gap
\* is negative), a second primary of 441 sectors of type t2
TwoPrimariesDisk(len1, gap, t2, Cylinders) ==
    RawDisk(0, PARTITION_MAGIC, <<PARTITION_FAT_16, t2, 0, 0>>, Cylinders, 4,
            [i \in 1..4 |->
                IF i = 1 THEN RawSlot(2048, len1, PARTITION_FAT_16, TRUE, 1)
                ELSE IF i = 2 THEN RawSlot(2048 + len1 + gap, 441, t2, FALSE, 2)
                ELSE ZeroSlot])

\* a disk of Cylinders tracks without partition table
BlankDisk(Cylinders) ==
    RawDisk(0, 0, <<0, 0, 0, 0>>, Cylinders, 0, [i \in 1..4 |-> ZeroSlot])

\* the machines that are scanned: one disk each
ScanInputs ==
    {<<TwoPrimariesDisk(len1, gap, t2, Cylinders)>> :
        len1 \in {500, 504}, gap \in {-100, 0, 35, 63, 70, 126},
        t2 \in {131, PARTITION_EXTENDED}, Cylinders \in {50, 51, 52}}
      \cup {<<BlankDisk(Cylinders), GptDisk(1)>> : Cylinders \in {33, 34, 36}}

\* pre is the machine, the list is not built yet
InitScan ==
    /\ pre \in ScanInputs
    /\ disks = <<>>
    /\ SystemPartition = NULL
    /\ lastOp = NoOp
    /\ budget = 1
    /\ SwitcherIdle

\* CreatePartitionList on the machine pre
DoCreatePartitionList ==
    /\ Spend
    /\ disks' = ScannedDisks(pre)
    /\ SystemPartition' = ScannedSystemPartition(ScannedDisks(pre))
    /\ lastOp' = [NoOp EXCEPT !.op = "scan"]
    /\ pre' = pre

NextScan == DoCreatePartitionList

SpecScan == InitScan /\ [][NextScan]_vars

\* C34: every free region the scan leaves in a primary or a logical list
\* (leading, between partitions, trailing) has a sector count that is at
\* least the sector alignment of its disk
C34_FreeRegionsAtLeastAlignment ==
    lastOp.op = "scan"
        => \A d \in 1..Len(disks), l \in BOOLEAN :
              \A k \in 1..Len(PartList(disks[d], l)) :
                 ~PartList(disks[d], l)[k].IsPartitioned
                    => PartList(disks[d], l)[k].SectorCount >= disks[d].SectorAlignment

\* the slots of a drive layout that start inside an earlier used slot: the
\* entries InsertDiskRegion refuses
OverlappingSlots(raw) ==
    LET P == raw.Layout.PartitionEntry
        First(i) == P[i].StartingOffset \div raw.BytesPerSector
        Last(i) == First(i) + P[i].PartitionLength \div raw.BytesPerSector - 1
    IN  {i \in 1..4 :
            /\ P[i].PartitionType # PARTITION_ENTRY_UNUSED
            /\ \E j \in 1..(i - 1) :
                  /\ P[j].PartitionType # PARTITION_ENTRY_UNUSED
                  /\ Max(First(i), First(j)) <= Min(Last(i), Last(j))}

\* the drive layout raw with the slots in S unused
WithoutSlots(raw, S) ==
    [raw EXCEPT !.Layout.PartitionEntry =
        [i \in 1..4 |-> IF i \in S THEN ZeroSlot ELSE @[i]]]

\* the extended-partition pointer of every disk is null or names a region
\* of the primary list
ExtendedPartitionIsListed ==
    \A d \in 1..Len(disks) :
        \/ disks[d].ExtendedPartition = NULL
        \/ PosOfId(disks[d].PrimaryPartList, disks[d].ExtendedPartition) # 0

\* C35: when the scan meets a layout entry that overlaps a region already in
\* the list, the entry is refused and nothing else changes: the lists are
\* those of the same disk without that entry, and the extended-partition
\* pointer is null or names a region of the primary list
C35_RefusedEntryLeavesNoTrace ==
    (lastOp.op = "scan" /\ OverlappingSlots(pre[1]) # {})
        => /\ Topology(disks)
                = Topology(ScannedDisks(
                      <<WithoutSlots(pre[1], OverlappingSlots(pre[1]))>>))
           /\ ExtendedPartitionIsListed

(***************************************************************************)
(* The firmware's view of the disks                                        *)
(***************************************************************************)
MaxKeys == 2

\* a DiskPeripheral\<d> key with a well-formed Identifier value
\* ("checksum-signature-?") and Configuration Data value
DiskPeripheralKey(a, c, d) ==
    [Signature |-> 100 * a + 10 * c + d, Checksum |-> 7]

\* the subtrees a key can have: keys 0..n-1 for some n
SubKeys(S) == UNION {[1..n -> S] : n \in 0..MaxKeys}

\* the configuration store under HARDWARE\DESCRIPTION\System: whether the
\* Configuration Data value yields the Int13 drive table, and the
\* MultifunctionAdapter\<a>\DiskController\<c>\DiskPeripheral\<d> tree: the
\* adapters, for each whether it has a DiskController key and the
\* controllers under it, for each controller whether it has a
\* DiskPeripheral key and the number of disks under it
ControllerShapes ==
    {[HasDiskPeripheral |-> FALSE, Count |-> 0]}
        \cup {[HasDiskPeripheral |-> TRUE, Count |-> n] : n \in 0..MaxKeys}

AdapterShapes ==
    {[HasDiskController |-> FALSE, DiskController |-> <<>>]}
        \cup {[HasDiskController |-> TRUE, DiskController |-> cs] :
                 cs \in SubKeys(ControllerShapes)}

ConfigurationStores ==
    {[ConfigurationData |-> ok, NumberDrives |-> n, MultifunctionAdapter |-> as] :
        ok \in BOOLEAN, n \in {1}, as \in SubKeys(AdapterShapes)}

\* the disk loop of controller c of adapter a from DiskCount on; the query of
\* a missing key ends the whole enumeration
EnumerateDiskPeripherals(store, a, c, DiskCount, BiosDiskList) ==
    LET n == store.MultifunctionAdapter[a + 1].DiskController[c + 1].Count
        Entry(d) ==
            [AdapterNumber |-> 0,
             ControllerNumber |-> c,
             DiskNumber |-> d,
             Signature |-> DiskPeripheralKey(a, c, d).Signature,
             Checksum |-> DiskPeripheralKey(a, c, d).Checksum,
             HasInt13DiskData |-> d < store.NumberDrives]
    IN  BiosDiskList \o [i \in 1..(n - DiskCount) |-> Entry(DiskCount + i - 1)]

\* the controller loop of adapter a from ControllerCount on
RECURSIVE EnumerateDiskControllers(_, _, _, _)
EnumerateDiskControllers(store, a, ControllerCount, BiosDiskList) ==
    LET cs == store.MultifunctionAdapter[a + 1].DiskController
    IN  IF ControllerCount >= Len(cs)
        THEN BiosDiskList
        ELSE IF cs[ControllerCount + 1].HasDiskPeripheral
        THEN EnumerateDiskPeripherals(store, a, ControllerCount, 0, BiosDiskList)
        ELSE EnumerateDiskControllers(store, a, ControllerCount + 1, BiosDiskList)

\* the adapter loop from AdapterCount on: it goes on to the next adapter only
\* when the adapter has no DiskController key
RECURSIVE EnumerateMultifunctionAdapters(_, _, _)
EnumerateMultifunctionAdapters(store, AdapterCount, BiosDiskList) ==
    LET as == store.MultifunctionAdapter
    IN  IF AdapterCount >= Len(as)
        THEN BiosDiskList
        ELSE IF as[AdapterCount + 1].HasDiskController
        THEN EnumerateDiskControllers(store, AdapterCount, 0, BiosDiskList)
        ELSE EnumerateMultifunctionAdapters(store, AdapterCount + 1, BiosDiskList)

EnumerateBiosDiskEntries(store) ==
    IF ~store.ConfigurationData
    THEN <<>>
    ELSE EnumerateMultifunctionAdapters(store, 0, <<>>)

\* pre is the configuration store, the firmware disk list is not built yet
InitBios ==
    /\ pre \in ConfigurationStores
    /\ disks = <<>>
    /\ SystemPartition = NULL
    /\ lastOp = NoOp
    /\ budget = 1
    /\ SwitcherIdle

DoEnumerateBiosDiskEntries ==
    /\ Spend
    /\ lastOp' = [NoOp EXCEPT !.op = "enumerate_bios",
                              !.ok = pre.ConfigurationData,
                              !.BiosDiskList = EnumerateBiosDiskEntries(pre)]
    /\ UNCHANGED <<disks, SystemPartition, pre>>

NextBios == DoEnumerateBiosDiskEntries

SpecBios == InitBios /\ [][NextBios]_vars

\* the DiskPeripheral keys of the store, as <<adapter, controller, disk>>
DiskPeripheralKeys(store) ==
    {<<a, c, d>> \in (0..(MaxKeys - 1)) \X (0..(MaxKeys - 1)) \X (0..(MaxKeys - 1)) :
        /\ a < Len(store.MultifunctionAdapter)
        /\ c < Len(store.MultifunctionAdapter[a + 1].DiskController)
        /\ d < store.MultifunctionAdapter[a + 1].DiskController[c + 1].Count}

\* C36: when the Configuration Data value is read, the firmware disk list
\* holds exactly one entry for every DiskPeripheral key of every controller
\* of every adapter, in ascending (adapter, controller, disk) order
C36_OneEntryPerDiskPeripheral ==
    (lastOp.op = "enumerate_bios" /\ lastOp.ok)
        => LET L == lastOp.BiosDiskList
           IN  /\ {L[i].Signature : i \in 1..Len(L)}
                    = {DiskPeripheralKey(t[1], t[2], t[3]).Signature :
                          t \in DiskPeripheralKeys(pre)}
               /\ Len(L) = Cardinality(DiskPeripheralKeys(pre))
               /\ \A i \in 1..(Len(L) - 1) : L[i].Signature < L[i + 1].Signature

(***************************************************************************)
(* FindSupportedSystemPartition without a system disk                      *)
(***************************************************************************)
\* the device raw as a disk the firmware does not report
NotBiosFound(raw) == [raw EXCEPT !.BiosMatch = FALSE]

\* the list ds when the RtlAllocateHeap of the region that stands for the
\* empty disk d failed: ScanForUnpartitionedDiskSpace leaves the primary
\* list of the disk empty
WithoutBlankRegion(ds, d) ==
    IF Len(ds[d].PrimaryPartList) = 1 /\ ~ds[d].PrimaryPartList[1].IsPartitioned
    THEN [ds EXCEPT ![d].PrimaryPartList = <<>>]
    ELSE ds

\* lists without a disk that is both fixed and found by the firmware, and
\* lists whose first disk boots from an NTFS partition that takes all the
\* disk and whose second disk is unpartitioned, with or without its region
NoSystemDiskLists ==
    {ScannedDisks(<<NotBiosFound(MbrDisk(0))>>),
     ScannedDisks(<<NotBiosFound(NtfsDisk(0, 100)), NotBiosFound(MbrDisk(1))>>),
     ScannedDisks(<<NtfsDisk(0, 220), FreshDisk(1)>>),
     WithoutBlankRegion(ScannedDisks(<<NtfsDisk(0, 220), FreshDisk(1)>>), 2)}

InitFindAny ==
    /\ disks \in NoSystemDiskLists
    /\ SystemPartition = ScannedSystemPartition(disks)
    /\ lastOp = NoOp
    /\ pre = <<>>
    /\ budget = 1
    /\ SwitcherIdle

NextFindAny == DoFindSupportedSystemPartition

SpecFindAny == InitFindAny /\ [][NextFindAny]_vars

\* C37: on a non-empty disk list FindSupportedSystemPartition reads no field
\* through a NULL disk or region pointer, and what it returns is NULL or a
\* region of the list
C37_FindDereferencesNoNull ==
    (lastOp.op = "find" /\ disks # <<>>)
        => /\ lastOp.why = ""
           /\ lastOp.free = NULL \/ lastOp.free \in AllIds(disks)

(***************************************************************************)
(* Boot indicators                                                         *)
(***************************************************************************)
\* the regions of disk d, of either list, whose BootIndicator is set
BootFlagged(ds, d) ==
    {<<l, k>> \in BOOLEAN \X (1..(Len(ds[d].PrimaryPartList) + Len(ds[d].LogicalPartList))) :
        /\ k <= Len(PartList(ds[d], l))
        /\ PartList(ds[d], l)[k].BootIndicator}

\* C38: whatever calls of SetActivePartition, CreatePartition and
\* DeletePartition are made on the scanned list, no disk has more than one
\* region with the boot indicator set
C38_AtMostOneBootFlagged ==
    \A d \in 1..Len(disks) : Cardinality(BootFlagged(disks, d)) <= 1

(***************************************************************************)
(* Mount points                                                            *)
(***************************************************************************)
\* the regions the loop "while ((PartEntry = GetAdjDiskRegion(DiskEntry,
\* PartEntry, ENUM_REGION_NEXT | ENUM_REGION_PARTITIONED)))" visits on disk
\* d after the region CurrentPart, in the order of the visits
RECURSIVE PartitionedRegionsAfter(_, _, _)
PartitionedRegionsAfter(ds, d, CurrentPart) ==
    LET PartEntry == GetAdjDiskRegion(ds, d, CurrentPart,
                                      ENUM_REGION_NEXT + ENUM_REGION_PARTITIONED)
    IN  IF PartEntry[3] = 0 THEN <<>>
        ELSE <<PartEntry>> \o PartitionedRegionsAfter(ds, d, PartEntry)

\* the regions SetMountedDeviceValues visits on the disks from d on: a GPT
\* disk is skipped
RECURSIVE MountedDeviceVisits(_, _)
MountedDeviceVisits(ds, d) ==
    IF d > Len(ds) THEN <<>>
    ELSE (IF ds[d].DiskStyle = "GPT" THEN <<>>
          ELSE PartitionedRegionsAfter(ds, d, <<1, FALSE, 0>>))
            \o MountedDeviceVisits(ds, d + 1)

\* the visited regions that have a drive letter: SetMountedDeviceValue is
\* called for each of them until a call fails
MountedDeviceWrites(ds) ==
    SelectSeq(MountedDeviceVisits(ds, 1),
              LAMBDA p : RegionAt(ds, p[1], p[2], p[3]).Volume.DriveLetter # 0)

\* the loops of SetMountedDeviceValues over the visited regions v, of
\* which the regions w have a drive letter
SetMountedDeviceValuesOn(ds, v, w, okCalls) ==
    LET n == IF okCalls < Len(w) THEN okCalls ELSE Len(w)
        \* the visits up to the region whose call failed
        last == IF okCalls < Len(w)
                THEN CHOOSE k \in 1..Len(v) : v[k] = w[okCalls + 1]
                ELSE Len(v)
    IN  [ok |-> okCalls >= Len(w),
         calls |-> [k \in 1..n |->
                      <<RegionAt(ds, w[k][1], w[k][2], w[k][3]).Volume.DriveLetter,
                        ds[w[k][1]].LayoutBuffer.Signature,
                        GetPartEntryOffsetInBytes(ds[w[k][1]],
                            RegionAt(ds, w[k][1], w[k][2], w[k][3]))>>],
         asserted |-> {v[k] : k \in {j \in 1..last :
                         IsContainerPartition(
                             RegionAt(ds, v[j][1], v[j][2], v[j][3]).PartitionType)}}]

\* SetMountedDeviceValues(List) when the first okCalls calls of
\* SetMountedDeviceValue succeed: what it returns, the values written
\* <<Letter, Signature, StartingOffset>>, and the visited regions for which
\* ASSERT(!IsContainerPartition(PartEntry->PartitionType)) is false
SetMountedDeviceValues(ds, okCalls) ==
    SetMountedDeviceValuesOn(ds, MountedDeviceVisits(ds, 1),
                             MountedDeviceWrites(ds), okCalls)

\* SetMountedDeviceValues on the list: lastOp.dismounted holds the regions
\* for which the assertion is false
DoSetMountedDeviceValues ==
    /\ Spend
    /\ \E okCalls \in 0..Len(MountedDeviceWrites(disks)) :
          LET r == SetMountedDeviceValues(disks, okCalls)
          IN  lastOp' = [NoOp EXCEPT
                           !.op = "set_mounted",
                           !.ok = r.ok,
                           !.calls = r.calls,
                           !.dismounted = r.asserted]
    /\ pre' = <<>>
    /\ UNCHANGED <<disks, SystemPartition>>

NextMounted == DoSetMountedDeviceValues \/ DoDeletePartition

SpecMounted == InitEnum /\ [][NextMounted]_vars

\* C39: the assertion of SetMountedDeviceValues holds for every region it
\* visits: no partitioned region it enumerates is a container partition
C39_NoContainerEnumerated ==
    lastOp.op = "set_mounted" => lastOp.dismounted = {}

(***************************************************************************)
(* The keyboard-layout switcher (base/applications/kbswitch/kbswitch.c).   *)
(* The switcher keeps the number of the current layout in the ULONG        *)
(* ulCurrentLayoutNum; the configured layouts are the value names of the   *)
(* registry key HKCU\Keyboard Layout\Preload.  A ULONG is held here as the *)
(* signed 32-bit number with the same bits, so that (ULONG)-1 is -1 and    *)
(* Ret + 1, Ret - 1 wrap as they do in C.                                  *)
(***************************************************************************)

\* the largest value name a Preload key of the model holds
MaxLayouts == 5

\* the ULONG GetNextLayout returns for "no layout": return -1
NoNextLayout == -1

\* how many layouts the user picks from the menu before leaving the
\* switching to the hotkey
MaxMenuCommands == 2

\* the numbers a ULONG of the switcher takes in the model
LayoutNums == {NoNextLayout} \cup (0..(MaxLayouts + 1))

\* the Preload keys: any set of value names, 1..n among them
PreloadKeys == SUBSET (1..MaxLayouts)

\* number of characters _ultot(u, buffer, 10) stores without the terminator
UltotLength(u) ==
    IF u < 0 THEN 10
    ELSE IF u < 10 THEN 1
    ELSE IF u < 100 THEN 2
    ELSE IF u < 1000 THEN 3
    ELSE 4

\* GetLayoutID with the Preload key present: FALSE exactly when the key has
\* no value named by the decimal string of the number
GetLayoutID(P, uLayoutNum) == uLayoutNum \in P

\* GetNextLayout: overrun tells that _ultot wrote past TCHAR szLayoutNum[3 + 1]
GetNextLayout(P, Current) ==
    LET Ret == Current
    IN  IF UltotLength(Current) > 3
        THEN [overrun |-> TRUE, Ret |-> NoNextLayout]
        ELSE IF ~GetLayoutID(P, Current)
        THEN [overrun |-> FALSE, Ret |-> NoNextLayout]
        ELSE IF UltotLength(Ret + 1) > 3
        THEN [overrun |-> TRUE, Ret |-> NoNextLayout]
        ELSE IF GetLayoutID(P, Ret + 1)
        THEN [overrun |-> FALSE, Ret |-> Ret + 1]
        ELSE IF GetLayoutID(P, Ret - 1)
        THEN [overrun |-> FALSE, Ret |-> Ret - 1]
        ELSE [overrun |-> FALSE, Ret |-> NoNextLayout]

\* the layout identifiers LoadKeyboardLayout can be handed for the number
\* uLayoutNum: the one GetLayoutID stored, or what the uninitialised szLCID
\* holds when GetLayoutID stored nothing (0 stands for no layout's identifier)
LoadedLayoutIDs(P, uLayoutNum) ==
    IF GetLayoutID(P, uLayoutNum) THEN {uLayoutNum} ELSE P \cup {0}

\* the switcher still runs: no message handler has ended the process
SwitcherRuns == lastOp.why # "terminated"

\* ActivateLayout(hwnd, uLayoutNum) called by the handler of Message
ActivateLayout(Message, uLayoutNum) ==
    \E szLCID \in LoadedLayoutIDs(Preload, uLayoutNum) :
        /\ ulCurrentLayoutNum' = uLayoutNum
        /\ lastOp' = [NoOp EXCEPT !.op = Message,
                                  !.ok = GetLayoutID(Preload, uLayoutNum),
                                  !.idx = uLayoutNum,
                                  !.calls = <<<<"LoadKeyboardLayout", szLCID>>>>]

\* the body shared by WM_HOTKEY and WM_LOAD_LAYOUT; a write past the end of
\* szLayoutNum is undefined: the process ends, or GetNextLayout returns a
\* number read from the overwritten frame
LoadLayout(Message) ==
    LET r == GetNextLayout(Preload, ulCurrentLayoutNum)
    IN  IF r.overrun
        THEN \/ /\ lastOp' = [NoOp EXCEPT !.op = Message, !.ok = FALSE,
                                          !.why = "terminated"]
                /\ UNCHANGED ulCurrentLayoutNum
             \/ \E uNextNum \in LayoutNums \ {ulCurrentLayoutNum} :
                    ActivateLayout(Message, uNextNum)
        ELSE IF ulCurrentLayoutNum # r.Ret
        THEN ActivateLayout(Message, r.Ret)
        ELSE /\ lastOp' = [NoOp EXCEPT !.op = Message, !.idx = r.Ret]
             /\ UNCHANGED ulCurrentLayoutNum

\* WndProc, case WM_LOAD_LAYOUT
WmLoadLayout ==
    /\ SwitcherRuns
    /\ LoadLayout("WM_LOAD_LAYOUT")
    /\ UNCHANGED <<disks, SystemPartition, pre, budget, Preload>>

\* WndProc, case WM_HOTKEY with one of the two registered identifiers
WmHotKey ==
    /\ SwitcherRuns
    /\ \E wParam \in {"dwAltShiftHotKeyId", "dwShiftAltHotKeyId"} :
           LoadLayout("WM_HOTKEY")
    /\ UNCHANGED <<disks, SystemPartition, pre, budget, Preload>>

\* WndProc, case WM_HOTKEY with any other identifier: break
WmOtherHotKey ==
    /\ SwitcherRuns
    /\ lastOp' = [NoOp EXCEPT !.op = "WM_HOTKEY", !.why = "not registered"]
    /\ UNCHANGED <<disks, SystemPartition, pre, budget, Preload,
                   ulCurrentLayoutNum>>

\* WndProc, case WM_COMMAND, default: an item of the menu BuildLeftPopupMenu
\* made of the value names of the Preload key
WmCommand ==
    /\ SwitcherRuns
    /\ budget > 0
    /\ budget' = budget - 1
    /\ \E wParam \in Preload : ActivateLayout("WM_COMMAND", wParam)
    /\ UNCHANGED <<disks, SystemPartition, pre, Preload>>

\* the switcher after WM_CREATE, which activates layout ulCurrentLayoutNum = 1;
\* budget counts the menu selections the user still makes
InitSwitcher ==
    /\ disks = <<>>
    /\ SystemPartition = NULL
    /\ pre = <<>>
    /\ budget = MaxMenuCommands
    /\ Preload \in PreloadKeys
    /\ ulCurrentLayoutNum = 1
    /\ \E szLCID \in LoadedLayoutIDs(Preload, 1) :
           lastOp = [NoOp EXCEPT !.op = "WM_CREATE",
                                 !.ok = GetLayoutID(Preload, 1),
                                 !.idx = 1,
                                 !.calls = <<<<"LoadKeyboardLayout", szLCID>>>>]

NextSwitcher == WmLoadLayout \/ WmHotKey \/ WmOtherHotKey \/ WmCommand

\* a message that runs GetNextLayout
LoadLayoutMessage == WmLoadLayout \/ WmHotKey

SpecSwitcher == InitSwitcher /\ [][NextSwitcher]_vars

\* the hotkey or WM_LOAD_LAYOUT keeps being sent: the message loop of
\* _tWinMain dispatches every message that is posted
FairSwitcher == SpecSwitcher /\ WF_vars(LoadLayoutMessage)

\* C40: with the layouts 1..n configured in the Preload key (any n >= 1) and
\* hotkey / WM_LOAD_LAYOUT messages repeated, every configured layout is the
\* current layout again and again, whatever the current layout is
C40_EveryLayoutRecurs ==
    \A n \in 1..MaxLayouts : \A k \in 1..n :
        (Preload = 1..n) => []<>(ulCurrentLayoutNum = k)

=============================================================================
